---- MODULE Spec2Model ----
(***************************************************************************)
(* A model of the expense tracker's analytics endpoints, the Redis cache   *)
(* helpers they use and the create/update/delete endpoints on              *)
(* transactions, categories and budgets that invalidate the cache.         *)
(*                                                                         *)
(* Conventions.                                                            *)
(*  - An amount (a Python float) is an integer number of thousandths, and  *)
(*    arithmetic on it is exact.  The input amounts are even, so that no   *)
(*    sum or difference falls exactly between two hundredths, where the    *)
(*    result of round(x, 2) depends on the binary expansion of the float.  *)
(*  - A savings rate is an integer number of hundredths of a percent.      *)
(*  - A date is <<year, month, day>>.                                      *)
(*  - A string the code builds (a cache key, a month key) is a sequence of *)
(*    tokens; numbers are rendered digit by digit, so that a prefix of a   *)
(*    string is a prefix of its token sequence.                            *)
(*  - An optional value is <<>> (None) or <<v>>.                           *)
(***************************************************************************)
EXTENDS Integers, Sequences, FiniteSets, TLC

\* ------------------------------------------------------------------ text

Digit(n) ==
    CASE n = 0 -> "0" [] n = 1 -> "1" [] n = 2 -> "2" [] n = 3 -> "3"
      [] n = 4 -> "4" [] n = 5 -> "5" [] n = 6 -> "6" [] n = 7 -> "7"
      [] n = 8 -> "8" [] n = 9 -> "9"

RECURSIVE Str(_)
\* str(n) of a natural number, as in an f-string: its decimal digits.
Str(n) == IF n < 10 THEN <<Digit(n)>> ELSE Str(n \div 10) \o <<Digit(n % 10)>>

RECURSIVE ZeroPad(_, _)
\* A format such as :02d, and the zero-padded fields of date.isoformat().
ZeroPad(s, width) == IF Len(s) >= width THEN s ELSE ZeroPad(<<"0">> \o s, width)

\* str(date) and date.isoformat(): YYYY-MM-DD.
isoformat(d) ==
    ZeroPad(Str(d[1]), 4) \o <<"-">> \o ZeroPad(Str(d[2]), 2) \o <<"-">>
        \o ZeroPad(Str(d[3]), 2)

\* Whether sequence p is a prefix of sequence s.
IsPrefix(p, s) == Len(p) <= Len(s) /\ SubSeq(s, 1, Len(p)) = p

\* The code point order of the characters a month key is made of.
CharOrd(c) == IF c = "-" THEN 0 ELSE 1 + (CHOOSE n \in 0..9 : Digit(n) = c)

RECURSIVE StrLess(_, _)
\* Python's < on two strings: lexicographic by code point.
StrLess(a, b) ==
    IF a = <<>> THEN b # <<>>
    ELSE IF b = <<>> THEN FALSE
    ELSE IF Head(a) = Head(b) THEN StrLess(Tail(a), Tail(b))
    ELSE CharOrd(Head(a)) < CharOrd(Head(b))

\* ----------------------------------------------------------------- dates

DateLE(a, b) ==
    \/ a[1] < b[1]
    \/ a[1] = b[1] /\ a[2] < b[2]
    \/ a[1] = b[1] /\ a[2] = b[2] /\ a[3] <= b[3]

DateLT(a, b) == DateLE(a, b) /\ a # b

IsLeap(y) == (y % 4 = 0 /\ y % 100 # 0) \/ y % 400 = 0

DaysInMonth(y, m) ==
    IF m = 2 THEN (IF IsLeap(y) THEN 29 ELSE 28)
    ELSE IF m \in {4, 6, 9, 11} THEN 30 ELSE 31

\* date - timedelta(days=1)
DayBefore(d) ==
    IF d[3] > 1 THEN <<d[1], d[2], d[3] - 1>>
    ELSE IF d[2] > 1 THEN <<d[1], d[2] - 1, DaysInMonth(d[1], d[2] - 1)>>
    ELSE <<d[1] - 1, 12, 31>>

\* A defaulting that fills in only the bound that was left out.
DefaultWindowPerBound(start_date, end_date, today) ==
    [start_date |-> IF start_date = <<>> THEN <<today[1], today[2], 1>>
                    ELSE start_date[1],
     end_date |-> IF end_date # <<>> THEN end_date[1]
                  ELSE IF today[2] = 12
                  THEN DayBefore(<<today[1] + 1, 1, 1>>)
                  ELSE DayBefore(<<today[1], today[2] + 1, 1>>)]

\* The window an analytics endpoint uses: the dates given when both are, else
\* the first and the last day of the month of today (datetime.now()).
DefaultWindow(start_date, end_date, today) ==
    IF start_date = <<>> \/ end_date = <<>>
    THEN [start_date |-> <<today[1], today[2], 1>>,
          end_date |-> IF today[2] = 12
                       THEN DayBefore(<<today[1] + 1, 1, 1>>)
                       ELSE DayBefore(<<today[1], today[2] + 1, 1>>)]
    ELSE [start_date |-> start_date[1], end_date |-> end_date[1]]

\* ------------------------------------------------------------- numbers

\* n / d rounded to the nearest integer, ties to the even one (d > 0).
RoundHalfEven(n, d) ==
    LET q == n \div d
        r == n % d
    IN  IF 2 * r < d THEN q
        ELSE IF 2 * r > d THEN q + 1
        ELSE IF q % 2 = 0 THEN q ELSE q + 1

\* round(x, 2) of an amount: the nearest whole number of hundredths.
Round2(x) == 10 * RoundHalfEven(x, 10)

RECURSIVE SumAmount(_)
SumAmount(S) ==
    IF S = {} THEN 0
    ELSE LET t == CHOOSE t \in S : TRUE IN t.amount + SumAmount(S \ {t})

\* func.sum(Transaction.amount) ... .scalar(): NULL (None) over no rows.
SqlSum(S) == IF S = {} THEN <<>> ELSE <<SumAmount(S)>>

\* x or 0.0
OrZero(x) == IF x = <<>> \/ x[1] = 0 THEN 0 ELSE x[1]

\* ----------------------------------------------------- analytics queries

\* TransactionType
INCOME == "income"
EXPENSE == "expense"

\* A filter whose date bounds are exclusive.
MatchingRowsExclusive(txs, user_id, type, start_date, end_date) ==
    {t \in txs : /\ t.user_id = user_id
                 /\ t.type = type
                 /\ DateLT(start_date, t.date)
                 /\ DateLT(t.date, end_date)}

\* The rows the two sum queries of the summary and the breakdown queries
\* filter: the caller's transactions of one type dated within [start, end].
MatchingRows(txs, user_id, type, start_date, end_date) ==
    {t \in txs : /\ t.user_id = user_id
                 /\ t.type = type
                 /\ DateLE(start_date, t.date)
                 /\ DateLE(t.date, end_date)}

\* db.query(func.sum(Transaction.amount)).filter(...).scalar() or 0.0
QueryTotal(txs, user_id, type, start_date, end_date) ==
    OrZero(SqlSum(MatchingRows(txs, user_id, type, start_date, end_date)))

\* The summary's result, from the two totals as queried (not yet rounded).
SummaryResult(total_income, total_expenses, start_date, end_date) ==
    LET balance == total_income - total_expenses
    IN  [start_date |-> isoformat(start_date),
         end_date |-> isoformat(end_date),
         total_income |-> Round2(total_income),
         total_expenses |-> Round2(total_expenses),
         balance |-> Round2(balance),
         savings_rate |-> IF total_income > 0
                          THEN RoundHalfEven(balance * 10000, total_income)
                          ELSE 0]

\* What get_financial_summary computes from the store on a cache miss.
ComputeSummary(txs, user_id, start_date, end_date) ==
    SummaryResult(QueryTotal(txs, user_id, INCOME, start_date, end_date),
                  QueryTotal(txs, user_id, EXPENSE, start_date, end_date),
                  start_date, end_date)

RECURSIVE SeqByKey(_, _)
\* The elements of S, one per value of field f, in ascending order of f.
SeqByKey(S, f) ==
    IF S = {} THEN <<>>
    ELSE LET lo == CHOOSE r \in S : \A o \in S : r[f] <= o[f]
         IN  <<lo>> \o SeqByKey(S \ {lo}, f)

\* A breakdown query that leaves out the filter on the caller.
QueryByCategoryOfAll(txs, cats, user_id, type, start_date, end_date) ==
    LET rows(c) == {t \in txs : /\ t.type = type
                                /\ DateLE(start_date, t.date)
                                /\ DateLE(t.date, end_date)
                                /\ t.category_id = c.id}
    IN  SeqByKey({[id |-> c.id, name |-> c.name, total |-> SumAmount(rows(c))] :
                      c \in {k \in cats : rows(k) # {}}}, "id")

\* Category JOIN Transaction ON Transaction.category_id = Category.id, filtered
\* and grouped by category: one row per category with a matching transaction.
\* The query states no order; the rows come in the order of the category id.
QueryByCategory(txs, cats, user_id, type, start_date, end_date) ==
    LET rows(c) == {t \in MatchingRows(txs, user_id, type, start_date, end_date) :
                        t.category_id = c.id}
    IN  SeqByKey({[id |-> c.id, name |-> c.name, total |-> SumAmount(rows(c))] :
                      c \in {k \in cats : rows(k) # {}}}, "id")

\* A breakdown that joins only the categories of the type asked for.
ComputeByCategoryOfType(txs, cats, user_id, type, start_date, end_date) ==
    LET results == QueryByCategory(txs, {c \in cats : c.type = type}, user_id, type,
                                   start_date, end_date)
    IN  [start_date |-> isoformat(start_date),
         end_date |-> isoformat(end_date),
         data |-> [i \in 1..Len(results) |->
                      [category_id |-> results[i].id,
                       category_name |-> results[i].name,
                       total |-> Round2(results[i].total)]]]

\* What get_spending_by_category (type expense) and get_income_by_category
\* (type income) compute from the store on a cache miss.
ComputeByCategory(txs, cats, user_id, type, start_date, end_date) ==
    LET results == QueryByCategory(txs, cats, user_id, type, start_date, end_date)
    IN  [start_date |-> isoformat(start_date),
         end_date |-> isoformat(end_date),
         data |-> [i \in 1..Len(results) |->
                      [category_id |-> results[i].id,
                       category_name |-> results[i].name,
                       total |-> Round2(results[i].total)]]]

\* f"{int(r.year)}-{int(r.month):02d}"
MonthKey(year, month) == Str(year) \o <<"-">> \o ZeroPad(Str(month), 2)

\* A trend query that leaves out the filter on the caller.
QueryMonthlyOfAll(txs, user_id) ==
    {[year |-> g[1], month |-> g[2], type |-> g[3],
      total |-> SumAmount({t \in txs : /\ t.date[1] = g[1]
                                       /\ t.date[2] = g[2]
                                       /\ t.type = g[3]})] :
        g \in {<<t.date[1], t.date[2], t.type>> : t \in txs}}

\* The trend query: the caller's transactions summed per (year, month, type).
QueryMonthly(txs, user_id) ==
    {[year |-> g[1], month |-> g[2], type |-> g[3],
      total |-> SumAmount({t \in txs : /\ t.user_id = user_id
                                       /\ t.date[1] = g[1]
                                       /\ t.date[2] = g[2]
                                       /\ t.type = g[3]})] :
        g \in {<<t.date[1], t.date[2], t.type>> : t \in {r \in txs : r.user_id = user_id}}}

\* monthly_data: month key -> {"income", "expense"}, each 0.0 unless a group
\* of that type exists.
MonthlyData(results) ==
    LET side(k, type) ==
            LET hit == {r \in results : MonthKey(r.year, r.month) = k /\ r.type = type}
            IN  IF hit = {} THEN 0 ELSE Round2((CHOOSE r \in hit : TRUE).total)
    IN  [k \in {MonthKey(r.year, r.month) : r \in results} |->
            [income |-> side(k, INCOME), expense |-> side(k, EXPENSE)]]

RECURSIVE SortedKeysDesc(_)
\* sorted(keys, reverse=True) of a set of distinct strings.
SortedKeysDesc(S) ==
    IF S = {} THEN <<>>
    ELSE LET hi == CHOOSE k \in S : \A o \in S \ {k} : StrLess(o, k)
         IN  <<hi>> \o SortedKeysDesc(S \ {hi})

\* seq[:n]
Take(seq, n) == SubSeq(seq, 1, IF n < Len(seq) THEN n ELSE Len(seq))

\* list(reversed(seq))
Reversed(seq) == [i \in 1..Len(seq) |-> seq[Len(seq) + 1 - i]]

\* What get_monthly_trend computes from the store on a cache miss.
ComputeMonthlyTrend(txs, user_id, months) ==
    LET monthly_data == MonthlyData(QueryMonthly(txs, user_id))
        order == Take(SortedKeysDesc(DOMAIN monthly_data), months)
        trend_data == [i \in 1..Len(order) |->
                          [month |-> order[i],
                           income |-> monthly_data[order[i]].income,
                           expense |-> monthly_data[order[i]].expense,
                           balance |-> Round2(monthly_data[order[i]].income
                                              - monthly_data[order[i]].expense)]]
    IN  [data |-> Reversed(trend_data)]

\* ------------------------------------------------------------------ json

\* The members of a result dict in insertion order.
KeyOrder(value) ==
    IF "total_income" \in DOMAIN value
    THEN <<"start_date", "end_date", "total_income", "total_expenses", "balance",
           "savings_rate">>
    ELSE IF "start_date" \in DOMAIN value
    THEN <<"start_date", "end_date", "data">>
    ELSE <<"data">>

\* json.dumps(value): the text, as the sequence of its members <<name, value>>.
json_dumps(value) ==
    [i \in 1..Len(KeyOrder(value)) |-> <<KeyOrder(value)[i], value[KeyOrder(value)[i]]>>]

\* json.loads(text): the dict of the members.
json_loads(text) ==
    [k \in {text[i][1] : i \in DOMAIN text} |->
        text[CHOOSE i \in DOMAIN text : text[i][1] = k][2]]

\* ----------------------------------------------------------------- cache

\* The Redis database is a function from the keys it holds to entries
\* [value, ttl, ...]: value is the stored text and ttl the seconds the entry
\* has left.  The other fields of an entry are history the program cannot
\* read: the call that wrote it, and how the write was placed among the
\* steps of a concurrent mutation.
\*
\* get_cache and set_cache issue one Redis command; they take the database
\* r, whether a client is configured and whether the command succeeds
\* (ok = FALSE: it raises, and the helper swallows the exception).
\* delete_cache issues two, KEYS and then DEL of the keys found, and other
\* requests' commands can run between the two.

\* A get_cache without its try/except would let the error through; this
\* variant hands the error to the caller as if it were the cached value.
get_cache_unguarded(r, client, ok, key) ==
    IF ~client THEN <<>>
    ELSE IF ~ok THEN <<[detail |-> "Internal Server Error"]>>
    ELSE IF key \in DOMAIN r /\ r[key].value # <<>>
    THEN <<json_loads(r[key].value)>>
    ELSE <<>>

\* get_cache(key): None (<<>>) or <<the decoded value>>.
get_cache(r, client, ok, key) ==
    IF ~client THEN <<>>
    ELSE IF ~ok THEN <<>>
    ELSE IF key \in DOMAIN r /\ r[key].value # <<>>
    THEN <<json_loads(r[key].value)>>
    ELSE <<>>

\* A set_cache that ignores the expiry it is given and uses the default of
\* its signature, 300 seconds.
set_cache_default_expiry(r, client, ok, key, value, expiry, note) ==
    IF ~client \/ ~ok THEN r
    ELSE [k \in DOMAIN r \cup {key} |->
            IF k = key
            THEN [value |-> json_dumps(value), ttl |-> 300, note |-> note]
            ELSE r[k]]

\* set_cache(key, value, expiry): SETEX of the encoded value.  note is the
\* history kept with the entry.
set_cache(r, client, ok, key, value, expiry, note) ==
    IF ~client \/ ~ok THEN r
    ELSE [k \in DOMAIN r \cup {key} |->
            IF k = key
            THEN [value |-> json_dumps(value), ttl |-> expiry, note |-> note]
            ELSE r[k]]

\* A KEYS that takes the pattern for a key: the wildcard matches nothing.
KeysMatchingLiterally(r, pattern) == {k \in DOMAIN r : k = pattern}

\* Redis KEYS with a pattern that ends in its only wildcard, "*": the keys
\* that start with the text before it.
KeysMatching(r, pattern) ==
    {k \in DOMAIN r : IsPrefix(SubSeq(pattern, 1, Len(pattern) - 1), k)}

\* A DEL that removes nothing.
DeletedNothing(r, keys) == r

\* Redis DEL of keys.
Deleted(r, keys) == [k \in DOMAIN r \ keys |-> r[k]]

\* A pattern without the colon that ends the user id.
InvalidationPatternOpenId(resource, user_id) ==
    <<resource, ":">> \o Str(user_id) \o <<"*">>

\* f"{resource}:{current_user.id}:*"
InvalidationPattern(resource, user_id) ==
    <<resource, ":">> \o Str(user_id) \o <<":", "*">>

\* A key that leaves out the caller's id.
WindowKeyOfAllUsers(user_id, view, start_date, end_date) ==
    <<"analytics", ":", view, ":">>
        \o isoformat(start_date) \o <<":">> \o isoformat(end_date)

\* f"analytics:{current_user.id}:summary:{start_date}:{end_date}" and the keys
\* of the two breakdowns, which differ in the view's name.
WindowKey(user_id, view, start_date, end_date) ==
    <<"analytics", ":">> \o Str(user_id) \o <<":", view, ":">>
        \o isoformat(start_date) \o <<":">> \o isoformat(end_date)

\* A trend key outside the analytics prefix.
TrendKeyOutsideAnalytics(user_id, months) ==
    <<"monthly_trend", ":">> \o Str(user_id) \o <<":">> \o Str(months)

\* f"analytics:{current_user.id}:monthly_trend:{months}"
TrendKey(user_id, months) ==
    <<"analytics", ":">> \o Str(user_id) \o <<":", "monthly_trend", ":">> \o Str(months)

\* A test that also takes a result with an empty data list for no result.
TruthyData(cached) ==
    /\ cached # <<>>
    /\ DOMAIN cached[1] # {}
    /\ ("data" \in DOMAIN cached[1] => cached[1].data # <<>>)

\* `if cached:` on what get_cache returned: None and an empty dict are falsy.
Truthy(cached) == cached # <<>> /\ DOMAIN cached[1] # {}

\* Expiry of the summary and the two breakdowns, and of the trend (seconds).
SummaryExpiry == 300
TrendExpiry == 600

\* ----------------------------------------------------------------- state

VARIABLES
    transactions,   \* the committed rows of table transactions
    categories,     \* the committed rows of table categories
    budgets,        \* the committed rows of table budgets
    next_id,        \* the next primary key of each table
    redis,          \* the Redis database
    redis_client,   \* whether cache.py got a client (settings.REDIS_URL)
    today,          \* the date datetime.now() gives
    requests,       \* the request each worker is handling, and where it is
    done,           \* the response the last step sent, with what its request did
    cache_faults    \* how many Redis commands have failed so far

vars ==
    <<transactions, categories, budgets, next_id, redis, redis_client, today,
      requests, done, cache_faults>>

store == <<transactions, categories, budgets, next_id>>

\* Python's None where the model needs a record.
Null == [null |-> TRUE]

Idle == [pc |-> "idle"]

ReadKinds ==
    {"get_financial_summary", "get_spending_by_category", "get_income_by_category",
     "get_monthly_trend"}

TransactionMutations ==
    {"create_transaction", "update_transaction", "delete_transaction"}

MutationKinds ==
    TransactionMutations
        \cup {"create_category", "update_category", "delete_category",
              "create_budget", "update_budget", "delete_budget"}

\* What an analytics call computes from the store, whichever endpoint it is:
\* call is [kind, user_id, start_date, end_date, months] after defaulting.
Fresh(call, txs, cats) ==
    CASE call.kind = "get_financial_summary" ->
            ComputeSummary(txs, call.user_id, call.start_date, call.end_date)
      [] call.kind = "get_spending_by_category" ->
            ComputeByCategory(txs, cats, call.user_id, EXPENSE, call.start_date,
                              call.end_date)
      [] call.kind = "get_income_by_category" ->
            ComputeByCategory(txs, cats, call.user_id, INCOME, call.start_date,
                              call.end_date)
      [] call.kind = "get_monthly_trend" ->
            ComputeMonthlyTrend(txs, call.user_id, call.months)

NoResponse ==
    [kind |-> "none", user_id |-> 0, status |-> 0, body |-> Null, path |-> "none",
     log |-> <<>>, cache_failed |-> FALSE, call |-> Null, raw |-> Null,
     nocache |-> Null, overtaken |-> FALSE, stored |-> FALSE, after |-> Null,
     cached_before |-> {}]

\* The response a finished request sends.
Respond(fields) ==
    [k \in DOMAIN NoResponse |->
        IF k \in DOMAIN fields THEN fields[k] ELSE NoResponse[k]]

\* The state after construction: empty tables, an empty cache.
EmptyStore ==
    /\ transactions = {}
    /\ categories = {}
    /\ budgets = {}
    /\ next_id = [transaction |-> 1, category |-> 1, budget |-> 1]

Quiet ==
    /\ redis = <<>>
    /\ requests = [read |-> Idle, write |-> Idle]
    /\ done = NoResponse
    /\ cache_faults = 0

\* Bound of the model: how many Redis commands fail in one behaviour.
MaxFaults == 1

\* A Redis command is issued and succeeds (ok) or raises.  Without a client
\* no command is issued.
Command(ok) ==
    /\ ok \/ (redis_client /\ cache_faults < MaxFaults)
    /\ cache_faults' = IF ok THEN cache_faults ELSE cache_faults + 1

\* What a request that arrives keeps of the response sent just before it:
\* a mutation that succeeded, or a summary when the request is a summary
\* too, with its parameters and its body; nothing of any other response.
Prior(kind) ==
    IF done.kind \in MutationKinds /\ done.status \in {200, 201, 204}
    THEN [kind |-> done.kind, user_id |-> done.user_id, raw |-> Null,
          body |-> Null]
    ELSE IF /\ kind = "get_financial_summary"
            /\ done.kind = kind
            /\ done.status = 200
    THEN [kind |-> done.kind, user_id |-> done.user_id, raw |-> done.raw,
          body |-> done.body]
    ELSE [kind |-> "none", user_id |-> 0, raw |-> Null, body |-> Null]

\* ------------------------------------------------------- analytics calls

\* A lookup that renews the entry it finds: a hit gives the entry its full
\* expiry again.
CacheFirst_renewing(kind, call, raw, cache_key, expiry, ok) ==
    LET cached == get_cache(redis, redis_client, ok, cache_key)
        common == [kind |-> kind, user_id |-> call.user_id, call |-> call,
                   raw |-> raw, after |-> Prior(kind),
                   log |-> <<<<"get_cache", cache_key>>>>,
                   cache_failed |-> ~redis_client \/ ~ok,
                   nocache |-> Fresh(call, transactions, categories)]
    IN  /\ requests.read = Idle
        /\ Command(ok)
        /\ IF Truthy(cached)
           THEN /\ done' = Respond(common @@ [status |-> 200, body |-> cached[1],
                                              path |-> "hit"])
                /\ redis' = [redis EXCEPT ![cache_key].ttl = expiry]
                /\ UNCHANGED requests
           ELSE /\ requests' =
                        [requests EXCEPT !.read =
                            common @@ [pc |-> "query",
                                       cache_key |-> cache_key, expiry |-> expiry,
                                       total_income |-> 0, result |-> Null,
                                       overtaken |-> FALSE]]
                /\ done' = NoResponse
                /\ UNCHANGED redis
        /\ UNCHANGED <<store, redis_client, today>>

\* The part the four endpoints share up to the cache lookup: the key is
\* derived, get_cache is called and, when what it returns is truthy, that is
\* the response.  Otherwise the request goes on to its queries.
CacheFirst(kind, call, raw, cache_key, expiry, ok) ==
    LET cached == get_cache(redis, redis_client, ok, cache_key)
        common == [kind |-> kind, user_id |-> call.user_id, call |-> call,
                   raw |-> raw, after |-> Prior(kind),
                   log |-> <<<<"get_cache", cache_key>>>>,
                   cache_failed |-> ~redis_client \/ ~ok,
                   nocache |-> Fresh(call, transactions, categories)]
    IN  /\ requests.read = Idle
        /\ Command(ok)
        /\ IF Truthy(cached)
           THEN /\ done' = Respond(common @@ [status |-> 200, body |-> cached[1],
                                              path |-> "hit"])
                /\ UNCHANGED requests
           ELSE /\ requests' =
                        [requests EXCEPT !.read =
                            common @@ [pc |-> "query",
                                       cache_key |-> cache_key, expiry |-> expiry,
                                       total_income |-> 0, result |-> Null,
                                       overtaken |-> FALSE]]
                /\ done' = NoResponse
        /\ UNCHANGED <<store, redis, redis_client, today>>

\* GET /analytics/summary, to the cache lookup.
get_financial_summary(user_id, start_date, end_date, ok) ==
    LET w == DefaultWindow(start_date, end_date, today)
    IN  CacheFirst("get_financial_summary",
                   [kind |-> "get_financial_summary", user_id |-> user_id,
                    start_date |-> w.start_date, end_date |-> w.end_date,
                    months |-> 0],
                   <<start_date, end_date>>,
                   WindowKey(user_id, "summary", w.start_date, w.end_date),
                   SummaryExpiry, ok)

\* GET /analytics/spending-by-category, to the cache lookup.
get_spending_by_category(user_id, start_date, end_date, ok) ==
    LET w == DefaultWindow(start_date, end_date, today)
    IN  CacheFirst("get_spending_by_category",
                   [kind |-> "get_spending_by_category", user_id |-> user_id,
                    start_date |-> w.start_date, end_date |-> w.end_date,
                    months |-> 0],
                   <<start_date, end_date>>,
                   WindowKey(user_id, "spending_by_category", w.start_date,
                             w.end_date),
                   SummaryExpiry, ok)

\* GET /analytics/income-by-category, to the cache lookup.
get_income_by_category(user_id, start_date, end_date, ok) ==
    LET w == DefaultWindow(start_date, end_date, today)
    IN  CacheFirst("get_income_by_category",
                   [kind |-> "get_income_by_category", user_id |-> user_id,
                    start_date |-> w.start_date, end_date |-> w.end_date,
                    months |-> 0],
                   <<start_date, end_date>>,
                   WindowKey(user_id, "income_by_category", w.start_date,
                             w.end_date),
                   SummaryExpiry, ok)

\* GET /analytics/monthly-trend, to the cache lookup.
get_monthly_trend(user_id, months, ok) ==
    CacheFirst("get_monthly_trend",
               [kind |-> "get_monthly_trend", user_id |-> user_id,
                start_date |-> <<>>, end_date |-> <<>>, months |-> months],
               <<months>>, TrendKey(user_id, months), TrendExpiry, ok)

\* A store failure in a request: the query raises, the exception propagates,
\* the response is a 500 and the rest of the handler does not run.
StoreFailure(req) ==
    Respond([kind |-> req.kind, user_id |-> req.user_id, status |-> 500,
             body |-> [detail |-> "Internal Server Error"], path |-> req.path,
             log |-> Append(req.log, <<"query_raised">>),
             cache_failed |-> req.cache_failed,
             call |-> req.call, raw |-> req.raw, nocache |-> req.nocache,
             after |-> req.after])

\* A first query whose failure is caught: the handler goes on with 0.0 for
\* the total income.
summary_query_income_caught(db_ok) ==
    LET req == requests.read
    IN  /\ req.pc = "query"
        /\ req.kind = "get_financial_summary"
        /\ requests' =
                [requests EXCEPT !.read =
                    [req EXCEPT !.pc = "query_expenses",
                                !.log = Append(@, IF db_ok THEN <<"query">>
                                                  ELSE <<"query_raised">>),
                                !.total_income =
                                    IF db_ok
                                    THEN QueryTotal(transactions, req.user_id,
                                                    INCOME, req.call.start_date,
                                                    req.call.end_date)
                                    ELSE 0]]
        /\ done' = NoResponse
        /\ UNCHANGED <<store, redis, redis_client, today, cache_faults>>

\* The first query of get_financial_summary: the total income.
summary_query_income(db_ok) ==
    LET req == requests.read
    IN  /\ req.pc = "query"
        /\ req.kind = "get_financial_summary"
        /\ IF db_ok
           THEN /\ requests' =
                        [requests EXCEPT !.read =
                            [req EXCEPT !.pc = "query_expenses",
                                        !.log = Append(@, <<"query">>),
                                        !.total_income =
                                            QueryTotal(transactions, req.user_id,
                                                       INCOME, req.call.start_date,
                                                       req.call.end_date)]]
                /\ done' = NoResponse
           ELSE /\ requests' = [requests EXCEPT !.read = Idle]
                /\ done' = StoreFailure(req @@ [path |-> "miss"])
        /\ UNCHANGED <<store, redis, redis_client, today, cache_faults>>

\* Its second query, the total expenses, and the result built from the two.
summary_query_expenses(db_ok) ==
    LET req == requests.read
    IN  /\ req.pc = "query_expenses"
        /\ IF db_ok
           THEN /\ requests' =
                        [requests EXCEPT !.read =
                            [req EXCEPT !.pc = "set_cache",
                                        !.log = Append(@, <<"query">>),
                                        !.result =
                                            SummaryResult(
                                                req.total_income,
                                                QueryTotal(transactions, req.user_id,
                                                           EXPENSE,
                                                           req.call.start_date,
                                                           req.call.end_date),
                                                req.call.start_date,
                                                req.call.end_date)]]
                /\ done' = NoResponse
           ELSE /\ requests' = [requests EXCEPT !.read = Idle]
                /\ done' = StoreFailure(req @@ [path |-> "miss"])
        /\ UNCHANGED <<store, redis, redis_client, today, cache_faults>>

\* A query that reads the rows as they were when the request arrived, not as
\* they are when it runs.
analytics_query_snapshot(db_ok) ==
    LET req == requests.read
    IN  /\ req.pc = "query"
        /\ req.kind # "get_financial_summary"
        /\ db_ok
        /\ requests' =
                [requests EXCEPT !.read =
                    [req EXCEPT !.pc = "set_cache",
                                !.log = Append(@, <<"query">>),
                                !.result = req.nocache]]
        /\ done' = NoResponse
        /\ UNCHANGED <<store, redis, redis_client, today, cache_faults>>

\* The one query of a breakdown or of the trend, and the result built from it.
analytics_query(db_ok) ==
    LET req == requests.read
    IN  /\ req.pc = "query"
        /\ req.kind # "get_financial_summary"
        /\ IF db_ok
           THEN /\ requests' =
                        [requests EXCEPT !.read =
                            [req EXCEPT !.pc = "set_cache",
                                        !.log = Append(@, <<"query">>),
                                        !.result = Fresh(req.call, transactions,
                                                         categories)]]
                /\ done' = NoResponse
           ELSE /\ requests' = [requests EXCEPT !.read = Idle]
                /\ done' = StoreFailure(req @@ [path |-> "miss"])
        /\ UNCHANGED <<store, redis, redis_client, today, cache_faults>>

\* The end of the four endpoints on a miss: set_cache(cache_key, result,
\* expiry), then the result is the response.
cache_and_return(ok) ==
    LET req == requests.read
    IN  /\ req.pc = "set_cache"
        /\ Command(ok)
        /\ redis' = set_cache(redis, redis_client, ok, req.cache_key, req.result,
                              req.expiry,
                              [call |-> req.call, overtaken |-> req.overtaken,
                               window |->
                                    /\ requests.write.pc \in
                                            {"invalidate_resource", "delete_resource",
                                             "invalidate_analytics"}
                                    /\ requests.write.user_id = req.user_id])
        /\ requests' = [requests EXCEPT !.read = Idle]
        /\ done' = Respond([kind |-> req.kind, user_id |-> req.user_id,
                            status |-> 200, body |-> req.result, path |-> "miss",
                            log |-> Append(req.log,
                                           <<"set_cache", req.cache_key, req.result,
                                             req.expiry>>),
                            cache_failed |-> req.cache_failed \/ ~redis_client \/ ~ok,
                            call |-> req.call, raw |-> req.raw,
                            nocache |-> req.nocache, overtaken |-> req.overtaken,
                            stored |-> redis_client /\ ok, after |-> req.after])
        /\ UNCHANGED <<store, redis_client, today>>

\* ------------------------------------------------------------- mutations

\* Bounds of the model: how many rows each table is ever given.
MaxTransactions == 1
MaxCategories == 1
MaxBudgets == 1

\* raise HTTPException(status_code, detail) before anything is committed.
\* raw is what the request was given.
Rejected(kind, user_id, status, detail, raw) ==
    /\ done' = Respond([kind |-> kind, user_id |-> user_id, status |-> status,
                        body |-> [detail |-> detail], raw |-> raw])
    /\ UNCHANGED <<store, redis, redis_client, today, requests, cache_faults>>

\* db.commit() raised: nothing is committed and the handler ends there.
CommitFailed(kind, user_id, raw) ==
    /\ done' = Respond([kind |-> kind, user_id |-> user_id, status |-> 500,
                        body |-> [detail |-> "Internal Server Error"], raw |-> raw,
                        log |-> <<<<"commit_raised">>>>])
    /\ UNCHANGED <<store, redis, redis_client, today, requests, cache_faults>>

\* db.commit() returned: the handler goes on to its two delete_cache calls.
\* An analytics request of the same user that has already queried the store
\* has now been overtaken by a commit.
Committed(kind, resource, user_id, status, body) ==
    /\ requests' =
            [read |-> IF /\ requests.read.pc \in {"query_expenses", "set_cache"}
                         /\ requests.read.user_id = user_id
                      THEN [requests.read EXCEPT !.overtaken = TRUE]
                      ELSE requests.read,
             write |-> [pc |-> "invalidate_resource", kind |-> kind,
                        resource |-> resource, user_id |-> user_id,
                        status |-> status, body |-> body, log |-> <<<<"commit">>>>,
                        cache_failed |-> FALSE, found |-> {},
                        cached_before |->
                            {k \in DOMAIN redis :
                                IsPrefix(<<"analytics", ":">> \o Str(user_id)
                                            \o <<":">>, k)}]]
    /\ done' = NoResponse
    /\ UNCHANGED <<redis, redis_client, today, cache_faults>>

\* A lookup that leaves out the filter on the owner.
AnyonesCategory(category_id, user_id) == {c \in categories : c.id = category_id}

\* Category.id == category_id, Category.user_id == current_user.id ... .first()
OwnCategory(category_id, user_id) ==
    {c \in categories : c.id = category_id /\ c.user_id = user_id}

\* new if given (<<v>>), else old: `if data.field is not None: row.field = ...`
Updated(old, new) == IF new = <<>> THEN old ELSE new[1]

\* POST /transactions/, to the commit.  The description and created_at of a
\* transaction are left out: no analytics query reads them.
create_transaction(user_id, data, db_ok) ==
    /\ requests.write = Idle
    /\ next_id.transaction <= MaxTransactions
    /\ IF OwnCategory(data.category_id, user_id) = {}
       THEN Rejected("create_transaction", user_id, 404, "Category not found",
                     <<data>>)
       ELSE IF ~db_ok
       THEN CommitFailed("create_transaction", user_id, <<data>>)
       ELSE LET new_transaction ==
                    [id |-> next_id.transaction, user_id |-> user_id,
                     category_id |-> data.category_id, amount |-> data.amount,
                     type |-> data.type, date |-> data.date]
            IN  /\ transactions' = transactions \cup {new_transaction}
                /\ next_id' = [next_id EXCEPT !.transaction = @ + 1]
                /\ UNCHANGED <<categories, budgets>>
                /\ Committed("create_transaction", "transactions", user_id, 201,
                             new_transaction)

\* PUT /transactions/{transaction_id}, to the commit.
update_transaction(user_id, transaction_id, data, db_ok) ==
    /\ requests.write = Idle
    /\ LET found == {t \in transactions :
                        t.id = transaction_id /\ t.user_id = user_id}
       IN  IF found = {}
           THEN Rejected("update_transaction", user_id, 404, "Transaction not found",
                         <<transaction_id, data>>)
           ELSE IF /\ data.category_id # <<>>
                   /\ OwnCategory(data.category_id[1], user_id) = {}
           THEN Rejected("update_transaction", user_id, 404, "Category not found",
                         <<transaction_id, data>>)
           ELSE IF ~db_ok
           THEN CommitFailed("update_transaction", user_id, <<transaction_id, data>>)
           ELSE LET old == CHOOSE t \in found : TRUE
                    transaction ==
                        [id |-> old.id, user_id |-> old.user_id,
                         category_id |-> Updated(old.category_id, data.category_id),
                         amount |-> Updated(old.amount, data.amount),
                         type |-> Updated(old.type, data.type),
                         date |-> Updated(old.date, data.date)]
                IN  /\ transactions' = (transactions \ {old}) \cup {transaction}
                    /\ UNCHANGED <<categories, budgets, next_id>>
                    /\ Committed("update_transaction", "transactions", user_id, 200,
                                 transaction)

\* DELETE /transactions/{transaction_id}, to the commit.
delete_transaction(user_id, transaction_id, db_ok) ==
    /\ requests.write = Idle
    /\ LET found == {t \in transactions :
                        t.id = transaction_id /\ t.user_id = user_id}
       IN  IF found = {}
           THEN Rejected("delete_transaction", user_id, 404, "Transaction not found",
                         <<transaction_id>>)
           ELSE IF ~db_ok
           THEN CommitFailed("delete_transaction", user_id, <<transaction_id>>)
           ELSE /\ transactions' = transactions \ found
                /\ UNCHANGED <<categories, budgets, next_id>>
                /\ Committed("delete_transaction", "transactions", user_id, 204, Null)

\* POST /categories/, to the commit.
create_category(user_id, data, db_ok) ==
    /\ requests.write = Idle
    /\ next_id.category <= MaxCategories
    /\ IF ~db_ok
       THEN CommitFailed("create_category", user_id, <<data>>)
       ELSE LET new_category ==
                    [id |-> next_id.category, name |-> data.name,
                     type |-> data.type, user_id |-> user_id]
            IN  /\ categories' = categories \cup {new_category}
                /\ next_id' = [next_id EXCEPT !.category = @ + 1]
                /\ UNCHANGED <<transactions, budgets>>
                /\ Committed("create_category", "categories", user_id, 201,
                             new_category)

\* PUT /categories/{category_id}, to the commit.
update_category(user_id, category_id, data, db_ok) ==
    /\ requests.write = Idle
    /\ LET found == OwnCategory(category_id, user_id)
       IN  IF found = {}
           THEN Rejected("update_category", user_id, 404, "Category not found",
                         <<category_id, data>>)
           ELSE IF ~db_ok
           THEN CommitFailed("update_category", user_id, <<category_id, data>>)
           ELSE LET old == CHOOSE c \in found : TRUE
                    category ==
                        [id |-> old.id, name |-> Updated(old.name, data.name),
                         type |-> Updated(old.type, data.type),
                         user_id |-> old.user_id]
                IN  /\ categories' = (categories \ {old}) \cup {category}
                    /\ UNCHANGED <<transactions, budgets, next_id>>
                    /\ Committed("update_category", "categories", user_id, 200,
                                 category)

\* A delete_category whose commit goes through whatever references the
\* category: the transactions and budgets of the category stay as they are.
delete_category_unguarded(user_id, category_id, db_ok) ==
    /\ requests.write = Idle
    /\ LET found == OwnCategory(category_id, user_id)
       IN  IF found = {}
           THEN Rejected("delete_category", user_id, 404, "Category not found",
                         <<category_id>>)
           ELSE IF ~db_ok
           THEN CommitFailed("delete_category", user_id, <<category_id>>)
           ELSE /\ categories' = categories \ found
                /\ UNCHANGED <<transactions, budgets, next_id>>
                /\ Committed("delete_category", "categories", user_id, 204, Null)

\* DELETE /categories/{category_id}, to the commit.  The relationships of
\* Category state no cascade, so the session sets the category_id of the
\* transactions and budgets of the category to NULL when it flushes the
\* delete, and both columns are nullable=False: the commit raises.
delete_category(user_id, category_id, db_ok) ==
    /\ requests.write = Idle
    /\ LET found == OwnCategory(category_id, user_id)
           referenced ==
               \/ \E t \in transactions : t.category_id = category_id
               \/ \E b \in budgets : b.category_id = category_id
       IN  IF found = {}
           THEN Rejected("delete_category", user_id, 404, "Category not found",
                         <<category_id>>)
           ELSE IF ~db_ok \/ referenced
           THEN CommitFailed("delete_category", user_id, <<category_id>>)
           ELSE /\ categories' = categories \ found
                /\ UNCHANGED <<transactions, budgets, next_id>>
                /\ Committed("delete_category", "categories", user_id, 204, Null)

\* A create_budget whose date check lets start_date == end_date through.
create_budget_equal_dates(user_id, data, db_ok) ==
    /\ requests.write = Idle
    /\ next_id.budget <= MaxBudgets
    /\ IF OwnCategory(data.category_id, user_id) = {}
       THEN Rejected("create_budget", user_id, 404, "Category not found", <<data>>)
       ELSE IF DateLT(data.end_date, data.start_date)
       THEN Rejected("create_budget", user_id, 400,
                     "End date must be after start date", <<data>>)
       ELSE IF ~db_ok
       THEN CommitFailed("create_budget", user_id, <<data>>)
       ELSE LET new_budget ==
                    [id |-> next_id.budget, user_id |-> user_id,
                     category_id |-> data.category_id, amount |-> data.amount,
                     period |-> data.period, start_date |-> data.start_date,
                     end_date |-> data.end_date]
            IN  /\ budgets' = budgets \cup {new_budget}
                /\ next_id' = [next_id EXCEPT !.budget = @ + 1]
                /\ UNCHANGED <<transactions, categories>>
                /\ Committed("create_budget", "budgets", user_id, 201, new_budget)

\* POST /budgets/, to the commit.
create_budget(user_id, data, db_ok) ==
    /\ requests.write = Idle
    /\ next_id.budget <= MaxBudgets
    /\ IF OwnCategory(data.category_id, user_id) = {}
       THEN Rejected("create_budget", user_id, 404, "Category not found", <<data>>)
       ELSE IF DateLE(data.end_date, data.start_date)
       THEN Rejected("create_budget", user_id, 400,
                     "End date must be after start date", <<data>>)
       ELSE IF ~db_ok
       THEN CommitFailed("create_budget", user_id, <<data>>)
       ELSE LET new_budget ==
                    [id |-> next_id.budget, user_id |-> user_id,
                     category_id |-> data.category_id, amount |-> data.amount,
                     period |-> data.period, start_date |-> data.start_date,
                     end_date |-> data.end_date]
            IN  /\ budgets' = budgets \cup {new_budget}
                /\ next_id' = [next_id EXCEPT !.budget = @ + 1]
                /\ UNCHANGED <<transactions, categories>>
                /\ Committed("create_budget", "budgets", user_id, 201, new_budget)

\* An update_budget that writes the assigned fields to the store before it
\* validates the dates.
update_budget_written_first(user_id, budget_id, data, db_ok) ==
    /\ requests.write = Idle
    /\ LET found == {b \in budgets : b.id = budget_id /\ b.user_id = user_id}
       IN  IF found = {}
           THEN Rejected("update_budget", user_id, 404, "Budget not found",
                         <<budget_id, data>>)
           ELSE IF /\ data.category_id # <<>>
                   /\ OwnCategory(data.category_id[1], user_id) = {}
           THEN Rejected("update_budget", user_id, 404, "Category not found",
                         <<budget_id, data>>)
           ELSE LET old == CHOOSE b \in found : TRUE
                    budget ==
                        [id |-> old.id, user_id |-> old.user_id,
                         category_id |-> Updated(old.category_id, data.category_id),
                         amount |-> Updated(old.amount, data.amount),
                         period |-> Updated(old.period, data.period),
                         start_date |-> Updated(old.start_date, data.start_date),
                         end_date |-> Updated(old.end_date, data.end_date)]
                IN  IF DateLE(budget.end_date, budget.start_date)
                    THEN /\ budgets' = (budgets \ {old}) \cup {budget}
                         /\ done' = Respond([kind |-> "update_budget",
                                             user_id |-> user_id, status |-> 400,
                                             body |-> [detail |->
                                                "End date must be after start date"],
                                             raw |-> <<budget_id, data>>])
                         /\ UNCHANGED <<transactions, categories, next_id, redis,
                                        redis_client, today, requests,
                                        cache_faults>>
                    ELSE IF ~db_ok
                    THEN CommitFailed("update_budget", user_id, <<budget_id, data>>)
                    ELSE /\ budgets' = (budgets \ {old}) \cup {budget}
                         /\ UNCHANGED <<transactions, categories, next_id>>
                         /\ Committed("update_budget", "budgets", user_id, 200,
                                      budget)

\* PUT /budgets/{budget_id}, to the commit.  The 400 is raised after the
\* fields were assigned to the loaded row, and before any commit.
update_budget(user_id, budget_id, data, db_ok) ==
    /\ requests.write = Idle
    /\ LET found == {b \in budgets : b.id = budget_id /\ b.user_id = user_id}
       IN  IF found = {}
           THEN Rejected("update_budget", user_id, 404, "Budget not found",
                         <<budget_id, data>>)
           ELSE IF /\ data.category_id # <<>>
                   /\ OwnCategory(data.category_id[1], user_id) = {}
           THEN Rejected("update_budget", user_id, 404, "Category not found",
                         <<budget_id, data>>)
           ELSE LET old == CHOOSE b \in found : TRUE
                    budget ==
                        [id |-> old.id, user_id |-> old.user_id,
                         category_id |-> Updated(old.category_id, data.category_id),
                         amount |-> Updated(old.amount, data.amount),
                         period |-> Updated(old.period, data.period),
                         start_date |-> Updated(old.start_date, data.start_date),
                         end_date |-> Updated(old.end_date, data.end_date)]
                IN  IF DateLE(budget.end_date, budget.start_date)
                    THEN Rejected("update_budget", user_id, 400,
                                  "End date must be after start date",
                                  <<budget_id, data>>)
                    ELSE IF ~db_ok
                    THEN CommitFailed("update_budget", user_id, <<budget_id, data>>)
                    ELSE /\ budgets' = (budgets \ {old}) \cup {budget}
                         /\ UNCHANGED <<transactions, categories, next_id>>
                         /\ Committed("update_budget", "budgets", user_id, 200,
                                      budget)

\* DELETE /budgets/{budget_id}, to the commit.
delete_budget(user_id, budget_id, db_ok) ==
    /\ requests.write = Idle
    /\ LET found == {b \in budgets : b.id = budget_id /\ b.user_id = user_id}
       IN  IF found = {}
           THEN Rejected("delete_budget", user_id, 404, "Budget not found",
                         <<budget_id>>)
           ELSE IF ~db_ok
           THEN CommitFailed("delete_budget", user_id, <<budget_id>>)
           ELSE /\ budgets' = budgets \ found
                /\ UNCHANGED <<transactions, categories, next_id>>
                /\ Committed("delete_budget", "budgets", user_id, 204, Null)

\* What follows a delete_cache call of a mutation: after the first call
\* (the keys of its own resource) the second (the user's analytics keys),
\* after the second the return.  failed: the call's command raised.
Invalidated(req, failed) ==
    IF req.pc \in {"invalidate_resource", "delete_resource"}
    THEN /\ requests' =
                [requests EXCEPT !.write =
                    [req EXCEPT !.pc = "invalidate_analytics", !.found = {},
                                !.cache_failed = @ \/ failed]]
         /\ done' = NoResponse
    ELSE /\ requests' = [requests EXCEPT !.write = Idle]
         /\ done' = Respond([kind |-> req.kind, user_id |-> req.user_id,
                             status |-> req.status, body |-> req.body,
                             log |-> req.log,
                             cache_failed |-> req.cache_failed \/ failed,
                             cached_before |-> req.cached_before])

\* delete_cache(pattern), to its KEYS command.  With no key found (or no
\* client, or the command raising) the call is over.
delete_cache_keys(ok) ==
    LET req == requests.write
        pattern ==
            InvalidationPattern(IF req.pc = "invalidate_resource"
                                THEN req.resource ELSE "analytics", req.user_id)
        called == [req EXCEPT !.log = Append(@, <<"delete_cache", pattern>>)]
        keys == IF redis_client /\ ok THEN KeysMatching(redis, pattern) ELSE {}
    IN  /\ req.pc \in {"invalidate_resource", "invalidate_analytics"}
        /\ Command(ok)
        /\ IF keys = {}
           THEN Invalidated(called, ~redis_client \/ ~ok)
           ELSE /\ requests' =
                        [requests EXCEPT !.write =
                            [called EXCEPT !.pc = IF req.pc = "invalidate_resource"
                                                  THEN "delete_resource"
                                                  ELSE "delete_analytics",
                                           !.found = keys]]
                /\ done' = NoResponse
        /\ UNCHANGED <<store, redis, redis_client, today>>

\* delete_cache(pattern), its DEL of the keys found.
delete_cache_delete(ok) ==
    LET req == requests.write
    IN  /\ req.pc \in {"delete_resource", "delete_analytics"}
        /\ Command(ok)
        /\ redis' = IF ok THEN Deleted(redis, req.found) ELSE redis
        /\ Invalidated(req, ~ok)
        /\ UNCHANGED <<store, redis_client, today>>

\* ----------------------------------------------------------- environment

\* The seconds one step of the clock takes.
TickSeconds == 300

\* Time passes: every entry loses TickSeconds of its time to live, and Redis
\* drops the entries that have none left.  No request takes a step.
Tick ==
    /\ redis' = [k \in {j \in DOMAIN redis : redis[j].ttl > TickSeconds} |->
                    [redis[k] EXCEPT !.ttl = @ - TickSeconds]]
    /\ UNCHANGED <<store, redis_client, today, requests, done, cache_faults>>

\* The calendar moves on to a later day.
NewDay(date) ==
    /\ DateLT(today, date)
    /\ today' = date
    /\ done' = NoResponse
    /\ UNCHANGED <<store, redis, redis_client, requests, cache_faults>>


\* ------------------------------------------------------ requests arriving

\* No request is being handled: the next one runs alone.
AllIdle == requests = [read |-> Idle, write |-> Idle]

Users == {1}

December == <<<<2024, 12, 1>>, <<2024, 12, 31>>>>
InDecember == <<2024, 12, 15>>
InJanuary == <<2025, 1, 10>>

\* The windows asked for: none, and December 2024 in full.
Windows == {<<<<>>, <<>>>>, <<<<December[1]>>, <<December[2]>>>>}

MonthsAsked == {6}

CategoryIds == 1..MaxCategories
TransactionIds == 1..MaxTransactions
BudgetIds == 1..MaxBudgets

\* What is posted: an income of 10.00 in December.
TransactionData ==
    [category_id : {1}, amount : {10000}, type : {INCOME}, date : {InDecember}]

\* What is put: the transaction becomes an expense of 4.00.
TransactionUpdates ==
    {[category_id |-> <<1>>, amount |-> <<4000>>, type |-> <<EXPENSE>>,
      date |-> <<>>]}

CategoryData == {[name |-> "Salary", type |-> INCOME]}

CategoryUpdates == {[name |-> <<"Wages">>, type |-> <<>>]}

BudgetData ==
    [category_id : {1}, amount : {500000}, period : {"monthly"},
     start_date : {December[1]},
     end_date : {<<2024, 11, 30>>, December[1], December[2]}]

BudgetUpdates ==
    {[category_id |-> <<>>, amount |-> <<>>, period |-> <<>>,
      start_date |-> <<December[2]>>, end_date |-> <<>>],
     [category_id |-> <<>>, amount |-> <<>>, period |-> <<>>,
      start_date |-> <<>>, end_date |-> <<<<2024, 11, 30>>>>],
     [category_id |-> <<1>>, amount |-> <<250000>>, period |-> <<>>,
      start_date |-> <<>>, end_date |-> <<>>]}

\* A summary request arrives.
SummaryArrives(users, oks) ==
    \E user_id \in users, ok \in oks, w \in Windows :
        get_financial_summary(user_id, w[1], w[2], ok)

\* A breakdown request arrives.
BreakdownArrives(users, oks) ==
    \E user_id \in users, ok \in oks :
        \/ get_spending_by_category(user_id, <<>>, <<>>, ok)
        \/ get_income_by_category(user_id, <<December[1]>>, <<December[2]>>, ok)

\* A trend request arrives.
TrendArrives(users, oks) ==
    \E user_id \in users, ok \in oks, months \in MonthsAsked :
        get_monthly_trend(user_id, months, ok)

\* A request on transactions arrives.
TransactionWriteArrives(users, db_oks) ==
    \E user_id \in users, db_ok \in db_oks :
        \/ \E data \in TransactionData : create_transaction(user_id, data, db_ok)
        \/ \E id \in TransactionIds, data \in TransactionUpdates :
                update_transaction(user_id, id, data, db_ok)
        \/ \E id \in TransactionIds : delete_transaction(user_id, id, db_ok)

\* A request on categories arrives.
CategoryWriteArrives(users, db_oks) ==
    \E user_id \in users, db_ok \in db_oks :
        \/ \E data \in CategoryData : create_category(user_id, data, db_ok)
        \/ \E id \in CategoryIds, data \in CategoryUpdates :
                update_category(user_id, id, data, db_ok)
        \/ \E id \in CategoryIds : delete_category(user_id, id, db_ok)

\* A request on budgets arrives.
BudgetWriteArrives(users, db_oks) ==
    \E user_id \in users, db_ok \in db_oks :
        \/ \E data \in BudgetData : create_budget(user_id, data, db_ok)
        \/ \E id \in BudgetIds, data \in BudgetUpdates :
                update_budget(user_id, id, data, db_ok)
        \/ \E id \in BudgetIds : delete_budget(user_id, id, db_ok)

\* The summary request being handled runs its next query.
SummaryContinues(db_oks) ==
    \/ \E db_ok \in db_oks : summary_query_income(db_ok)
    \/ \E db_ok \in db_oks : summary_query_expenses(db_ok)

\* The breakdown or trend request being handled runs its query.
QueryContinues(db_oks) == \E db_ok \in db_oks : analytics_query(db_ok)

\* The analytics request being handled caches its result and returns.
ReadReturns(oks) == \E ok \in oks : cache_and_return(ok)

\* The mutation being handled takes its next step.
WriteContinues(oks) ==
    \/ \E ok \in oks : delete_cache_keys(ok)
    \/ \E ok \in oks : delete_cache_delete(ok)

\* The store once user 1 has created a category and nothing else.
OneCategory ==
    /\ transactions = {}
    /\ budgets = {}
    /\ categories = {[id |-> 1, name |-> "Salary", type |-> INCOME, user_id |-> 1]}
    /\ next_id = [transaction |-> 1, category |-> 2, budget |-> 1]

\* ----------------------------------------------------------------- Spec
\* Requests are handled one at a time; Redis commands may fail.  Analytics
\* and transactions of a user who has a category.

Init ==
    /\ OneCategory
    /\ Quiet
    /\ redis_client \in BOOLEAN
    /\ today = <<2024, 12, 20>>

Next ==
    \/ AllIdle /\ SummaryArrives(Users, BOOLEAN)
    \/ AllIdle /\ BreakdownArrives(Users, BOOLEAN)
    \/ AllIdle /\ TrendArrives(Users, BOOLEAN)
    \/ AllIdle /\ TransactionWriteArrives(Users, {TRUE})
    \/ SummaryContinues({TRUE})
    \/ QueryContinues({TRUE})
    \/ ReadReturns(BOOLEAN)
    \/ WriteContinues(BOOLEAN)
    \/ AllIdle /\ Tick

Spec == Init /\ [][Next]_vars

\* -------------------------------------------------------------- MutSpec
\* Requests are handled one at a time; Redis commands may fail.  The nine
\* mutations, from empty tables, and the trend.

MutInit ==
    /\ EmptyStore
    /\ Quiet
    /\ redis_client = TRUE
    /\ today = <<2024, 12, 20>>

MutNext ==
    \/ AllIdle /\ TrendArrives(Users, {TRUE})
    \/ AllIdle /\ TransactionWriteArrives(Users, {TRUE})
    \/ AllIdle /\ CategoryWriteArrives(Users, {TRUE})
    \/ AllIdle /\ BudgetWriteArrives(Users, {TRUE})
    \/ QueryContinues({TRUE})
    \/ ReadReturns({TRUE})
    \/ WriteContinues(BOOLEAN)

MutSpec == MutInit /\ [][MutNext]_vars

\* ------------------------------------------------------------- ConcSpec
\* An analytics request and a mutation are handled at the same time, their
\* steps interleaved in any order; Redis works.  The clock is stepped while
\* no request is being handled.

ConcInit ==
    /\ OneCategory
    /\ Quiet
    /\ redis_client = TRUE
    /\ today = <<2024, 12, 20>>

ConcNext ==
    \/ SummaryArrives(Users, {TRUE})
    \/ TrendArrives(Users, {TRUE})
    \/ TransactionWriteArrives(Users, {TRUE})
    \/ SummaryContinues({TRUE})
    \/ QueryContinues({TRUE})
    \/ ReadReturns({TRUE})
    \/ WriteContinues({TRUE})
    \/ AllIdle /\ Tick

ConcSpec == ConcInit /\ [][ConcNext]_vars

\* ------------------------------------------------------------- CalcSpec
\* What the analytics endpoints compute, over the transactions a user can have posted:
\* no Redis client is configured, so every request computes its result.

\* Bound of the model: how many transactions the user has.
MaxRows == 2

\* The transactions posted: amount is a float the schema does not constrain,
\* here 0.006, 0.012 or 10.00.
PostedData ==
    [amount : {6, 12, 10000}, type : {INCOME, EXPENSE},
     date : {InDecember, InJanuary}]

\* The rows of table transactions once user 1 has posted posted[1], ...
PostedRows(posted) ==
    {[id |-> i, user_id |-> 1, category_id |-> 1, amount |-> posted[i].amount,
      type |-> posted[i].type, date |-> posted[i].date] : i \in DOMAIN posted}

CalcInit ==
    /\ \E n \in 0..MaxRows : \E posted \in [1..n -> PostedData] :
            /\ transactions = PostedRows(posted)
            /\ next_id = [transaction |-> n + 1, category |-> 2, budget |-> 1]
    /\ categories = {[id |-> 1, name |-> "Salary", type |-> INCOME, user_id |-> 1]}
    /\ budgets = {}
    /\ Quiet
    /\ redis_client = FALSE
    /\ today = <<2024, 12, 20>>

CalcNext ==
    \/ AllIdle /\ SummaryArrives(Users, {TRUE})
    \/ AllIdle /\ BreakdownArrives(Users, {TRUE})
    \/ AllIdle /\ TrendArrives(Users, {TRUE})
    \/ SummaryContinues({TRUE})
    \/ QueryContinues({TRUE})
    \/ ReadReturns({TRUE})
    \/ AllIdle /\ NewDay(<<2025, 1, 5>>)

CalcSpec == CalcInit /\ [][CalcNext]_vars

\* -------------------------------------------------------------- QrySpec
\* What the analytics endpoints compute and which key they derive, over
\* histories that hold the rows a filter has to tell apart: rows of another
\* user, of either type, on and just outside the bounds of a window, in two
\* categories, with amounts the schema lets through.  No Redis client is
\* configured, so every request computes its result.

\* The rows the histories are drawn from; user 1 owns categories 1 and 2,
\* user 11 category 3.
Ledger ==
    {[id |-> 1, user_id |-> 1, category_id |-> 1, amount |-> 100000,
      type |-> INCOME, date |-> <<2024, 12, 1>>],
     [id |-> 2, user_id |-> 1, category_id |-> 2, amount |-> 40000,
      type |-> EXPENSE, date |-> <<2024, 12, 31>>],
     [id |-> 3, user_id |-> 1, category_id |-> 1, amount |-> -10000,
      type |-> INCOME, date |-> <<2024, 12, 15>>],
     [id |-> 4, user_id |-> 1, category_id |-> 2, amount |-> 0,
      type |-> EXPENSE, date |-> <<2024, 12, 15>>],
     [id |-> 5, user_id |-> 1, category_id |-> 1, amount |-> 10000,
      type |-> INCOME, date |-> <<2024, 11, 30>>],
     [id |-> 6, user_id |-> 1, category_id |-> 2, amount |-> 4000,
      type |-> EXPENSE, date |-> <<2025, 1, 1>>],
     [id |-> 7, user_id |-> 11, category_id |-> 3, amount |-> 10000,
      type |-> INCOME, date |-> <<2024, 12, 15>>],
     [id |-> 8, user_id |-> 1, category_id |-> 2, amount |-> 4000,
      type |-> EXPENSE, date |-> <<999, 5, 10>>],
     [id |-> 9, user_id |-> 1, category_id |-> 1, amount |-> 6,
      type |-> INCOME, date |-> <<2024, 12, 15>>]}

LedgerCategories ==
    {[id |-> 1, name |-> "Salary", type |-> INCOME, user_id |-> 1],
     [id |-> 2, name |-> "Food", type |-> EXPENSE, user_id |-> 1],
     [id |-> 3, name |-> "Salary", type |-> INCOME, user_id |-> 11]}

\* The windows asked for: no bound, the start alone, the end alone, both.
AskedWindows ==
    {<<<<>>, <<>>>>, <<<<<<2024, 11, 10>>>>, <<>>>>, <<<<>>, <<<<2024, 11, 10>>>>>>,
     <<<<December[1]>>, <<December[2]>>>>}

FewMonths == {1, 3}

\* A summary or breakdown request arrives, with any of the windows.
WindowedArrives(users) ==
    \E user_id \in users, w \in AskedWindows :
        \/ get_financial_summary(user_id, w[1], w[2], TRUE)
        \/ get_spending_by_category(user_id, w[1], w[2], TRUE)
        \/ get_income_by_category(user_id, w[1], w[2], TRUE)

\* A trend request for a few months arrives.
ShortTrendArrives(users) ==
    \E user_id \in users, months \in FewMonths :
        get_monthly_trend(user_id, months, TRUE)

QryInit ==
    /\ \E rows \in SUBSET Ledger :
            /\ Cardinality(rows) <= MaxRows
            /\ transactions = rows
    /\ categories = LedgerCategories
    /\ budgets = {}
    /\ next_id = [transaction |-> 10, category |-> 4, budget |-> 1]
    /\ Quiet
    /\ redis_client = FALSE
    /\ today = <<2024, 2, 10>>

QryNext ==
    \/ AllIdle /\ WindowedArrives(Users)
    \/ AllIdle /\ ShortTrendArrives(Users)
    \/ SummaryContinues({TRUE})
    \/ QueryContinues({TRUE})
    \/ ReadReturns({TRUE})
    \/ AllIdle /\ NewDay(<<2024, 12, 20>>)
    \/ AllIdle /\ NewDay(<<2025, 2, 5>>)

QrySpec == QryInit /\ [][QryNext]_vars

\* -------------------------------------------------------------- ErrSpec
\* Requests are handled one at a time.  Two users, each with a category of
\* their own, post transactions and budgets; user 1 also reads, updates and
\* deletes.  The requests name categories and rows of the caller, of the
\* other user and of nobody, and a store query or commit may fail.  Redis
\* works.

Tenants == {1, 11}

\* Category 1 is user 1's, category 2 user 11's, category 3 nobody's.
AnyCategoryIds == {1, 2, 3}

PostedTransactions ==
    [category_id : AnyCategoryIds, amount : {10000}, type : {INCOME},
     date : {InDecember}]

PutTransactions ==
    {[category_id |-> c, amount |-> <<>>, type |-> <<>>, date |-> <<>>] :
        c \in {<<>>} \cup {<<id>> : id \in AnyCategoryIds}}

\* Budgets posted: in order with each category, and with equal dates in the
\* caller's and in the other user's category.
PostedBudgets ==
    {[category_id |-> c, amount |-> 500000, period |-> "monthly",
      start_date |-> December[1], end_date |-> December[2]] : c \in AnyCategoryIds}
        \cup {[category_id |-> c, amount |-> 500000, period |-> "monthly",
                start_date |-> December[1], end_date |-> December[1]] :
                    c \in AnyCategoryIds \ {3}}

\* Budgets put: another category, or the start moved onto the end.
PutBudgets ==
    {[category_id |-> c, amount |-> <<>>, period |-> <<>>, start_date |-> <<>>,
      end_date |-> <<>>] : c \in {<<id>> : id \in AnyCategoryIds}}
        \cup {[category_id |-> <<>>, amount |-> <<>>, period |-> <<>>,
                start_date |-> <<December[2]>>, end_date |-> <<>>]}

\* A POST on transactions or budgets arrives.
PostArrives(users, db_oks) ==
    \E user_id \in users, db_ok \in db_oks :
        \/ \E data \in PostedTransactions : create_transaction(user_id, data, db_ok)
        \/ \E data \in PostedBudgets : create_budget(user_id, data, db_ok)

\* A PUT on a transaction, a category or a budget arrives.
PutArrives(users, db_oks) ==
    \E user_id \in users, db_ok \in db_oks :
        \/ \E id \in TransactionIds, data \in PutTransactions :
                update_transaction(user_id, id, data, db_ok)
        \/ \E id \in AnyCategoryIds, data \in CategoryUpdates :
                update_category(user_id, id, data, db_ok)
        \/ \E id \in BudgetIds, data \in PutBudgets :
                update_budget(user_id, id, data, db_ok)

\* A DELETE on a transaction, a category or a budget arrives.
DeleteArrives(users, db_oks) ==
    \E user_id \in users, db_ok \in db_oks :
        \/ \E id \in TransactionIds : delete_transaction(user_id, id, db_ok)
        \/ \E id \in AnyCategoryIds : delete_category(user_id, id, db_ok)
        \/ \E id \in BudgetIds : delete_budget(user_id, id, db_ok)

ErrInit ==
    /\ transactions = {}
    /\ budgets = {}
    /\ categories = {[id |-> 1, name |-> "Salary", type |-> INCOME, user_id |-> 1],
                     [id |-> 2, name |-> "Rent", type |-> EXPENSE, user_id |-> 11]}
    /\ next_id = [transaction |-> 1, category |-> 3, budget |-> 1]
    /\ Quiet
    /\ redis_client = TRUE
    /\ today = <<2024, 12, 20>>

ErrNext ==
    \/ AllIdle /\ SummaryArrives(Users, {TRUE})
    \/ AllIdle /\ PostArrives(Tenants, BOOLEAN)
    \/ AllIdle /\ PutArrives(Users, BOOLEAN)
    \/ AllIdle /\ DeleteArrives(Users, BOOLEAN)
    \/ SummaryContinues(BOOLEAN)
    \/ ReadReturns({TRUE})
    \/ WriteContinues({TRUE})

ErrSpec == ErrInit /\ [][ErrNext]_vars

\* -------------------------------------------------------------- KeySpec
\* Two users ask for the summary and one of them also for the breakdowns and
\* the trend, one request at a time, with and without dates, in December 2024
\* and later in February 2025; Redis works and nothing is written to the
\* store.

KeyInit ==
    /\ OneCategory
    /\ Quiet
    /\ redis_client = TRUE
    /\ today = <<2024, 12, 20>>

KeyNext ==
    \/ AllIdle /\ SummaryArrives(Tenants, {TRUE})
    \/ AllIdle /\ BreakdownArrives(Users, {TRUE})
    \/ AllIdle /\ TrendArrives(Users, {TRUE})
    \/ SummaryContinues({TRUE})
    \/ QueryContinues({TRUE})
    \/ ReadReturns({TRUE})
    \/ AllIdle /\ NewDay(<<2025, 2, 5>>)

KeySpec == KeyInit /\ [][KeyNext]_vars

\* -------------------------------------------------------------- AgeSpec
\* An analytics request and a mutation are handled at the same time, their
\* steps interleaved in any order, and time passes at any point, also while
\* requests are being handled; Redis works.

AgeInit ==
    /\ OneCategory
    /\ Quiet
    /\ redis_client = TRUE
    /\ today = <<2024, 12, 20>>

AgeNext ==
    \/ SummaryArrives(Users, {TRUE})
    \/ TrendArrives(Users, {TRUE})
    \/ TransactionWriteArrives(Users, {TRUE})
    \/ SummaryContinues({TRUE})
    \/ QueryContinues({TRUE})
    \/ ReadReturns({TRUE})
    \/ WriteContinues({TRUE})
    \/ Tick

AgeSpec == AgeInit /\ [][AgeNext]_vars

\* -------------------------------------------------------------- TenSpec
\* Two users whose ids are 1 and 11, from empty tables: each creates,
\* updates and deletes categories and transactions of their own and asks for
\* the summary, user 1 also for the trend, one request at a time; Redis
\* works.

TenInit ==
    /\ EmptyStore
    /\ Quiet
    /\ redis_client = TRUE
    /\ today = <<2024, 12, 20>>

TenNext ==
    \/ AllIdle /\ SummaryArrives(Tenants, {TRUE})
    \/ AllIdle /\ TrendArrives(Users, {TRUE})
    \/ AllIdle /\ CategoryWriteArrives(Tenants, {TRUE})
    \/ AllIdle /\ TransactionWriteArrives(Tenants, {TRUE})
    \/ SummaryContinues({TRUE})
    \/ QueryContinues({TRUE})
    \/ ReadReturns({TRUE})
    \/ WriteContinues({TRUE})

TenSpec == TenInit /\ [][TenNext]_vars

\* -------------------------------------------------------------- IsoSpec
\* Users 1 and 11, each with a category of their own, post transactions and
\* budgets in it; summaries of both users and the income breakdown of user 1
\* are asked for at any time, also while a mutation is being handled.  A
\* mutation arrives when no request is being handled; Redis works.

\* A POST of a transaction or a budget in a category of the caller arrives.
OwnPostArrives(users) ==
    \E user_id \in users :
        \/ \E data \in PostedTransactions :
                /\ OwnCategory(data.category_id, user_id) # {}
                /\ create_transaction(user_id, data, TRUE)
        \/ \E data \in PostedBudgets :
                /\ OwnCategory(data.category_id, user_id) # {}
                /\ create_budget(user_id, data, TRUE)

\* A request for the income breakdown of December arrives.
IncomeBreakdownArrives(users) ==
    \E user_id \in users :
        get_income_by_category(user_id, <<December[1]>>, <<December[2]>>, TRUE)

IsoInit ==
    /\ transactions = {}
    /\ budgets = {}
    /\ categories = {[id |-> 1, name |-> "Salary", type |-> INCOME, user_id |-> 1],
                     [id |-> 2, name |-> "Rent", type |-> EXPENSE, user_id |-> 11]}
    /\ next_id = [transaction |-> 1, category |-> 3, budget |-> 1]
    /\ Quiet
    /\ redis_client = TRUE
    /\ today = <<2024, 12, 20>>

IsoNext ==
    \/ SummaryArrives(Tenants, {TRUE})
    \/ IncomeBreakdownArrives(Users)
    \/ AllIdle /\ OwnPostArrives(Tenants)
    \/ SummaryContinues({TRUE})
    \/ QueryContinues({TRUE})
    \/ ReadReturns({TRUE})
    \/ WriteContinues({TRUE})

IsoSpec == IsoInit /\ [][IsoNext]_vars

\* -------------------------------------------------------------- SumSpec
\* The summary and the two breakdowns over the same rows: rows of either
\* type in either category of user 1, two rows in one category, a negative
\* amount, a row outside the window, a row of user 11 and two sub-cent
\* amounts.  No Redis client is configured, so every request computes its
\* result.

Entries ==
    {[id |-> 1, user_id |-> 1, category_id |-> 1, amount |-> 10000,
      type |-> INCOME, date |-> <<2024, 12, 15>>],
     [id |-> 2, user_id |-> 1, category_id |-> 2, amount |-> 2500,
      type |-> INCOME, date |-> <<2024, 12, 15>>],
     [id |-> 3, user_id |-> 1, category_id |-> 2, amount |-> 4000,
      type |-> EXPENSE, date |-> <<2024, 12, 31>>],
     [id |-> 4, user_id |-> 1, category_id |-> 1, amount |-> -1000,
      type |-> EXPENSE, date |-> <<2024, 12, 1>>],
     [id |-> 5, user_id |-> 1, category_id |-> 2, amount |-> 4000,
      type |-> EXPENSE, date |-> <<2024, 12, 15>>],
     [id |-> 6, user_id |-> 1, category_id |-> 1, amount |-> 10000,
      type |-> INCOME, date |-> <<2024, 11, 30>>],
     [id |-> 7, user_id |-> 11, category_id |-> 3, amount |-> 10000,
      type |-> INCOME, date |-> <<2024, 12, 15>>],
     [id |-> 8, user_id |-> 1, category_id |-> 1, amount |-> 6,
      type |-> INCOME, date |-> <<2024, 12, 15>>],
     [id |-> 9, user_id |-> 1, category_id |-> 2, amount |-> 6,
      type |-> INCOME, date |-> <<2024, 12, 15>>]}

SumInit ==
    /\ \E rows \in SUBSET Entries :
            /\ Cardinality(rows) <= MaxRows
            /\ transactions = rows
    /\ categories = LedgerCategories
    /\ budgets = {}
    /\ next_id = [transaction |-> 10, category |-> 4, budget |-> 1]
    /\ Quiet
    /\ redis_client = FALSE
    /\ today = <<2024, 12, 20>>

SumNext ==
    \/ AllIdle /\ WindowedArrives(Users)
    \/ SummaryContinues({TRUE})
    \/ QueryContinues({TRUE})
    \/ ReadReturns({TRUE})
    \/ AllIdle /\ NewDay(<<2025, 2, 5>>)

SumSpec == SumInit /\ [][SumNext]_vars

\* --------------------------------------------------------------- claims

\* C1: with requests handled one at a time, the analytics call of a user that
\* directly follows a successful create_transaction, update_transaction or
\* delete_transaction of that user returns the value computed from the store,
\* which includes the mutation, not a value cached before it.
C1_ReadAfterWriteIsFresh ==
    (/\ done.kind \in ReadKinds
     /\ done.status = 200
     /\ done.after.kind \in TransactionMutations
     /\ done.after.user_id = done.user_id)
        => done.body = done.nocache

\* C2: each of the nine mutations that succeeds has done, in this order, the
\* commit, delete_cache("<resource>:<user_id>:*") and
\* delete_cache("analytics:<user_id>:*"), and nothing else; and when no cache
\* command of it failed, no key that starts with "analytics:<user_id>:" is
\* left when it returns, in particular none that was there at the commit.
C2_CommitThenInvalidate ==
    (done.kind \in MutationKinds /\ done.status \in {200, 201, 204}) =>
        LET resource ==
                IF done.kind \in TransactionMutations THEN "transactions"
                ELSE IF done.kind \in {"create_category", "update_category",
                                       "delete_category"}
                THEN "categories"
                ELSE "budgets"
            user == Str(done.user_id)
        IN  /\ done.log =
                    <<<<"commit">>,
                      <<"delete_cache", <<resource, ":">> \o user \o <<":", "*">>>>,
                      <<"delete_cache",
                        <<"analytics", ":">> \o user \o <<":", "*">>>>>>
            /\ ~done.cache_failed =>
                    /\ done.cached_before \cap DOMAIN redis = {}
                    /\ \A k \in DOMAIN redis :
                            ~IsPrefix(<<"analytics", ":">> \o user \o <<":">>, k)

\* A budget was deleted while the user's trend was cached, and every cache
\* command of the request worked.
C2_Witness ==
    /\ done.kind = "delete_budget"
    /\ done.status = 204
    /\ ~done.cache_failed
    /\ done.cached_before # {}

\* C3, as amended: once a mutation has returned, no entry is left that a read
\* wrote between the mutation's commit and the KEYS of its analytics
\* invalidation, and an entry that differs from what the store now gives was
\* written by a read that had queried the store before a commit: stale data
\* stays in the cache only when the read queries before the commit and
\* writes after the invalidation has listed the keys.
C3_StaleOnlyFromLateWrite ==
    requests.write = Idle =>
        \A k \in DOMAIN redis :
            /\ ~redis[k].note.window
            /\ json_loads(redis[k].value)
                    # Fresh(redis[k].note.call, transactions, categories)
                => redis[k].note.overtaken

\* A later read is served, from the cache, a value the store no longer
\* gives, written by a read that a commit had overtaken.
C3_Witness ==
    /\ requests.write = Idle
    /\ done.path = "hit"
    /\ done.body # done.nocache
    /\ done.log[1][2] \in DOMAIN redis
    /\ redis[done.log[1][2]].note.overtaken
    /\ ~redis[done.log[1][2]].note.window

\* C3, as stated: pre-write data that a read puts in the cache between a
\* mutation's commit and its invalidation is still there, unchanged, when
\* the mutation has returned.
C3_WindowEntrySurvives ==
    [][(requests.write # Idle /\ requests'.write = Idle) =>
            \A k \in DOMAIN redis :
                (/\ redis[k].note.window
                 /\ json_loads(redis[k].value)
                        # Fresh(redis[k].note.call, transactions, categories))
                    => (k \in DOMAIN redis' /\ redis'[k] = redis[k])]_vars

\* C4: under every interleaving of an analytics read with a mutation, a read
\* that no commit has overtaken since its first store query (every commit so
\* far came before its queries) writes to the cache the value the store
\* gives with all those commits, whatever step of its invalidation the
\* mutation is at.
C4_QueryAfterCommitWritesCurrent ==
    [][(/\ requests.read.pc = "set_cache"
        /\ requests'.read = Idle
        /\ ~requests.read.overtaken) =>
            /\ requests.read.cache_key \in DOMAIN redis'
            /\ json_loads(redis'[requests.read.cache_key].value)
                    = Fresh(requests.read.call, transactions, categories)]_vars

\* The cache holds an entry that a read wrote while a mutation was between
\* its commit and its analytics invalidation, from a query run after the
\* commit, and the mutation's row is in the store.
C4_Witness ==
    /\ transactions # {}
    /\ \E k \in DOMAIN redis :
            /\ redis[k].note.window
            /\ ~redis[k].note.overtaken
            /\ json_loads(redis[k].value)
                    = Fresh(redis[k].note.call, transactions, categories)

\* C5: an analytics call that finds an entry under its key answers 200 with
\* the decoded entry after get_cache alone, no query and no cache write, the
\* store and the cache left as they were; and a call goes on to its queries
\* without a cache command having failed only if there is no entry under its
\* key, whatever the entry holds.
C5_HitReturnsStored ==
    [][/\ (done' # done /\ done'.path = "hit") =>
            LET key == done'.log[1][2]
            IN  /\ done'.status = 200
                /\ done'.log = <<<<"get_cache", key>>>>
                /\ key \in DOMAIN redis
                /\ done'.body = json_loads(redis[key].value)
                /\ redis' = redis
                /\ store' = store
       /\ (/\ requests.read = Idle
           /\ requests'.read # Idle
           /\ ~requests'.read.cache_failed) =>
                requests'.read.cache_key \notin DOMAIN redis]_vars

\* A spending breakdown with an empty data list was served from the cache.
C5_Witness ==
    /\ done.path = "hit"
    /\ done.kind = "get_spending_by_category"
    /\ done.body.data = <<>>

\* C6: an analytics call that missed ends by calling set_cache(key, result,
\* expiry) with the result computed from the store and expiry 300, or 600
\* for the trend, and answers 200 with that result; when the SETEX worked
\* the cache holds the encoded result under the key with that time to live,
\* and otherwise the cache is as it was.
C6_MissComputesStoresReturns ==
    [][(requests.read.pc = "set_cache" /\ requests'.read = Idle) =>
            LET req == requests.read
                expiry == IF req.kind = "get_monthly_trend" THEN 600 ELSE 300
            IN  /\ done'.status = 200
                /\ done'.path = "miss"
                /\ done'.body = Fresh(req.call, transactions, categories)
                /\ done'.log[Len(done'.log)]
                        = <<"set_cache", req.cache_key, done'.body, expiry>>
                /\ IF done'.stored
                   THEN /\ req.cache_key \in DOMAIN redis'
                        /\ json_loads(redis'[req.cache_key].value) = done'.body
                        /\ redis'[req.cache_key].ttl = expiry
                   ELSE redis' = redis]_vars

\* A trend with a month in it was computed on a miss and is in the cache
\* with 600 seconds to live.
C6_Witness ==
    /\ done.kind = "get_monthly_trend"
    /\ done.path = "miss"
    /\ done.stored
    /\ done.body.data # <<>>
    /\ done.log[1][2] \in DOMAIN redis
    /\ redis[done.log[1][2]].ttl = 600

\* C7: a request in which a cache command failed, or that had no client,
\* does not fail: an analytics call answers 200 with what the store gives,
\* having gone on as after a miss, and a mutation answers with its success
\* status after its commit and both delete_cache calls, with the row it
\* committed.
C7_CacheFailureNeverFailsRequest ==
    done.cache_failed =>
        IF done.kind \in ReadKinds
        THEN /\ done.status = 200
             /\ done.path = "miss"
             /\ done.body = done.nocache
        ELSE /\ done.status \in {200, 201, 204}
             /\ Len(done.log) = 3
             /\ \/ done.body = Null
                \/ done.body \in transactions \cup categories \cup budgets

\* With a client configured, GET raised for a summary over a store with an
\* income, and the summary answered with that income.
C7_Witness ==
    /\ redis_client
    /\ done.kind = "get_financial_summary"
    /\ done.cache_failed
    /\ ~done.stored
    /\ done.status = 200
    /\ done.body.total_income > 0

\* C8: with requests handled one at a time and cache commands failing now
\* and then, every analytics response is the one the call gives with no
\* cache at all, computed from the store as it is at the call.
C8_ResponseEqualsCacheFree ==
    (done.kind \in ReadKinds /\ done.status = 200) => done.body = done.nocache

\* C9: a summary call that directly follows a summary call of the same user
\* with the same parameters, no mutation in between, returns the same body.
C9_SummaryTwiceIdentical ==
    (/\ done.kind = "get_financial_summary"
     /\ done.status = 200
     /\ done.after.kind = "get_financial_summary"
     /\ done.after.user_id = done.user_id
     /\ done.after.raw = done.raw)
        => done.body = done.after.body

\* C10: the balance a summary returns is its total_income minus its
\* total_expenses, all three as returned.
C10_BalanceIsDifference ==
    (done.kind = "get_financial_summary" /\ done.status = 200) =>
        done.body.balance = done.body.total_income - done.body.total_expenses

\* C11: a summary computed from the store has savings_rate equal to
\* balance / total_income * 100 rounded to 2 decimals whenever the total
\* income of the window is not 0, and 0 when it is 0; the totals are the sums
\* over the caller's rows of the window.
C11_SavingsRateOfIncome ==
    (done.kind = "get_financial_summary" /\ done.status = 200 /\ done.path = "miss") =>
        LET of(type) ==
                SumAmount({t \in transactions :
                              /\ t.user_id = done.user_id
                              /\ t.type = type
                              /\ DateLE(done.call.start_date, t.date)
                              /\ DateLE(t.date, done.call.end_date)})
            total_income == of(INCOME)
            balance == total_income - of(EXPENSE)
        IN  done.body.savings_rate =
                IF total_income = 0 THEN 0
                ELSE IF total_income > 0
                THEN RoundHalfEven(balance * 10000, total_income)
                ELSE RoundHalfEven((0 - balance) * 10000, 0 - total_income)

\* C12: a summary computed from the store has total_income (total_expenses)
\* equal to the sum, to 2 decimals, of the amounts of exactly the rows of the
\* caller of type income (expense) dated from start to end, both included,
\* and 0 when there is no such row; one income of 100 and one expense of 40
\* give 100.00, 40.00, balance 60.00 and savings_rate 60.00.
C12_TotalsOverWindow ==
    (done.kind = "get_financial_summary" /\ done.status = 200 /\ done.path = "miss") =>
        LET day(d) == d[1] * 10000 + d[2] * 100 + d[3]
            rows(type) ==
                {t \in transactions :
                    /\ t.user_id = done.user_id
                    /\ t.type = type
                    /\ day(t.date) >= day(done.call.start_date)
                    /\ day(t.date) <= day(done.call.end_date)}
            amounts(type) == {t.amount : t \in rows(type)}
        IN  /\ done.body.total_income = Round2(SumAmount(rows(INCOME)))
            /\ done.body.total_expenses = Round2(SumAmount(rows(EXPENSE)))
            /\ rows(INCOME) = {} => done.body.total_income = 0
            /\ rows(EXPENSE) = {} => done.body.total_expenses = 0
            /\ (/\ Cardinality(rows(INCOME)) = 1 /\ amounts(INCOME) = {100000}
                /\ Cardinality(rows(EXPENSE)) = 1 /\ amounts(EXPENSE) = {40000})
                    => /\ done.body.total_income = 100000
                       /\ done.body.total_expenses = 40000
                       /\ done.body.balance = 60000
                       /\ done.body.savings_rate = 6000

\* A summary of December over an income dated its first day and an expense
\* dated its last: both count.
C12_Witness ==
    /\ done.kind = "get_financial_summary"
    /\ done.status = 200
    /\ done.path = "miss"
    /\ done.call.start_date = <<2024, 12, 1>>
    /\ done.call.end_date = <<2024, 12, 31>>
    /\ {t.date : t \in transactions} = {<<2024, 12, 1>>, <<2024, 12, 31>>}
    /\ done.body.total_income = 100000
    /\ done.body.total_expenses = 40000
    /\ done.body.savings_rate = 6000

\* C13: a summary or breakdown call that leaves out start_date, end_date or
\* both uses the first and the last calendar day of the month of the current
\* date for both bounds, whatever bound it was given, in its cache key and in
\* its query; a call that gives both uses them as given.
C13_DefaultsToCurrentMonth ==
    (/\ done.kind \in ReadKinds \ {"get_monthly_trend"}
     /\ done.status = 200) =>
        LET last_day ==
                CASE <<today[1], today[2]>> = <<2024, 2>> -> 29
                  [] <<today[1], today[2]>> = <<2024, 12>> -> 31
                  [] <<today[1], today[2]>> = <<2025, 2>> -> 28
            window ==
                IF done.raw[1] = <<>> \/ done.raw[2] = <<>>
                THEN <<<<today[1], today[2], 1>>, <<today[1], today[2], last_day>>>>
                ELSE <<done.raw[1][1], done.raw[2][1]>>
            view ==
                CASE done.kind = "get_financial_summary" -> "summary"
                  [] done.kind = "get_spending_by_category" -> "spending_by_category"
                  [] done.kind = "get_income_by_category" -> "income_by_category"
        IN  /\ done.call.start_date = window[1]
            /\ done.call.end_date = window[2]
            /\ done.log[1] =
                    <<"get_cache",
                      <<"analytics", ":">> \o Str(done.user_id) \o <<":", view, ":">>
                          \o isoformat(window[1]) \o <<":">> \o isoformat(window[2])>>
            /\ done.body =
                    Fresh([kind |-> done.kind, user_id |-> done.user_id,
                           start_date |-> window[1], end_date |-> window[2],
                           months |-> 0], transactions, categories)

\* A breakdown asked in December 2024 with only a start date, of November:
\* the window is December, to its 31st.
C13_Witness ==
    /\ done.kind = "get_spending_by_category"
    /\ done.status = 200
    /\ done.raw = <<<<<<2024, 11, 10>>>>, <<>>>>
    /\ today = <<2024, 12, 20>>
    /\ done.call.start_date = <<2024, 12, 1>>
    /\ done.call.end_date = <<2024, 12, 31>>
    /\ done.body.data # <<>>

\* C14: a breakdown computed from the store has exactly one row for each
\* category with at least one row of the caller of the breakdown's type
\* dated within the window, its total the sum of those amounts to 2 decimals,
\* no row for any other category, and no row whose total is 0.
C14_OneRowPerUsedCategory ==
    (/\ done.kind \in {"get_spending_by_category", "get_income_by_category"}
     /\ done.status = 200
     /\ done.path = "miss") =>
        LET type == IF done.kind = "get_spending_by_category" THEN EXPENSE ELSE INCOME
            matching(c) ==
                {t \in transactions :
                    /\ t.user_id = done.user_id
                    /\ t.type = type
                    /\ t.category_id = c
                    /\ DateLE(done.call.start_date, t.date)
                    /\ DateLE(t.date, done.call.end_date)}
            data == done.body.data
        IN  /\ {data[i].category_id : i \in DOMAIN data} =
                    {c.id : c \in {k \in categories : matching(k.id) # {}}}
            /\ \A i, j \in DOMAIN data :
                    data[i].category_id = data[j].category_id => i = j
            /\ \A i \in DOMAIN data :
                    /\ data[i].total = Round2(SumAmount(matching(data[i].category_id)))
                    /\ data[i].total # 0

\* C15: a trend computed from the store, asked for `months` months of a
\* history with D distinct (year, month), lists exactly min(months, D)
\* entries: the min(months, D) most recent months that have a row of the
\* caller, in strictly ascending chronological order.
C15_MostRecentMonthsAscending ==
    (done.kind = "get_monthly_trend" /\ done.status = 200 /\ done.path = "miss") =>
        LET D == {<<t.date[1], t.date[2]>> :
                    t \in {r \in transactions : r.user_id = done.user_id}}
            n == IF done.call.months < Cardinality(D)
                 THEN done.call.months ELSE Cardinality(D)
            later(p) == {q \in D : q[1] * 12 + q[2] > p[1] * 12 + p[2]}
            data == done.body.data
        IN  /\ Len(data) = n
            /\ \A i \in 1..n :
                    \E p \in D :
                        /\ Cardinality(later(p)) = n - i
                        /\ data[i].month = MonthKey(p[1], p[2])

\* C16: every stored budget has start_date before end_date; a create_budget
\* whose start_date is not before its end_date (equal included), and an
\* update_budget whose dates, the new ones where given and the stored ones
\* elsewhere, are so, is answered 400 (unless it is answered 404 first).
C16_BudgetDatesOrdered ==
    LET day(d) == d[1] * 10000 + d[2] * 100 + d[3]
        own(id) == {b \in budgets : b.id = id /\ b.user_id = done.user_id}
        pick(old, new) == IF new = <<>> THEN old ELSE new[1]
        unordered(id, data) ==
            \E b \in own(id) :
                day(pick(b.start_date, data.start_date))
                    >= day(pick(b.end_date, data.end_date))
    IN  /\ \A b \in budgets : day(b.start_date) < day(b.end_date)
        /\ (done.kind = "create_budget" /\ done.status \notin {201, 404}) =>
                (done.status = 400
                    <=> day(done.raw[1].start_date) >= day(done.raw[1].end_date))
        /\ (done.kind = "create_budget" /\ done.status = 201) =>
                day(done.body.start_date) < day(done.body.end_date)
        /\ (done.kind = "update_budget" /\ done.status \notin {200, 404}) =>
                (done.status = 400 <=> unordered(done.raw[1], done.raw[2]))
        /\ (done.kind = "update_budget" /\ done.status = 200) =>
                day(done.body.start_date) < day(done.body.end_date)

\* An update_budget that moves the start of a stored budget onto its end
\* has been answered 400, and the budget is as it was.
C16_Witness ==
    /\ done.kind = "update_budget"
    /\ done.status = 400
    /\ done.raw[2].start_date # <<>>
    /\ done.raw[2].end_date = <<>>
    /\ \E b \in budgets :
            /\ b.id = done.raw[1]
            /\ done.raw[2].start_date[1] = b.end_date
            /\ DateLT(b.start_date, b.end_date)

\* C17: a create_transaction or create_budget, and an update_transaction or
\* update_budget that names a category, whose category does not exist or is
\* another user's is answered 404 with nothing persisted, in create_budget
\* also when its dates are out of order; a request of these that succeeds has
\* stored a category of the caller.
C17_ForeignCategoryIs404 ==
    [][LET r == done'
           creates == {"create_transaction", "create_budget"}
           updates == {"update_transaction", "update_budget"}
           mine(id) == \E c \in categories : c.id = id /\ c.user_id = r.user_id
           named ==
               IF r.kind \in creates THEN <<r.raw[1].category_id>>
               ELSE r.raw[2].category_id
           row_found ==
               /\ r.kind = "update_transaction" =>
                    \E t \in transactions : t.id = r.raw[1] /\ t.user_id = r.user_id
               /\ r.kind = "update_budget" =>
                    \E b \in budgets : b.id = r.raw[1] /\ b.user_id = r.user_id
       IN  /\ (/\ r.kind \in creates \cup updates
               /\ r.status \in {400, 404, 500}
               /\ named # <<>>
               /\ ~mine(named[1]))
                    => /\ r.status = 404
                       /\ store' = store
                       /\ row_found => r.body = [detail |-> "Category not found"]
           /\ (/\ r.kind \in creates \cup updates
               /\ r.status \in {200, 201})
                    => \E c \in categories' :
                            c.id = r.body.category_id /\ c.user_id = r.user_id
      ]_vars

\* A create_budget that names the other user's category and has equal dates
\* has been answered 404.
C17_Witness ==
    /\ done.kind = "create_budget"
    /\ done.status = 404
    /\ done.raw[1].start_date = done.raw[1].end_date
    /\ \E c \in categories :
            c.id = done.raw[1].category_id /\ c.user_id # done.user_id

\* C18: a mutation answered 404 or 400 has committed nothing and called
\* delete_cache not once: the tables and the cache are as they were before
\* the request; so is the stored budget after an update_budget answered 400.
C18_RejectedChangesNothing ==
    [][(done'.kind \in MutationKinds /\ done'.status \in {400, 404}) =>
            /\ transactions' = transactions
            /\ categories' = categories
            /\ budgets' = budgets
            /\ next_id' = next_id
            /\ redis' = redis
            /\ done'.log = <<>>
            /\ requests' = requests
      ]_vars

\* An update_budget has been answered 400 while the cache held an entry.
C18_Witness ==
    /\ done.kind = "update_budget"
    /\ done.status = 400
    /\ \E b \in budgets : b.id = done.raw[1] /\ b.user_id = done.user_id
    /\ DOMAIN redis # {}

\* C19: a request in which a store query or the commit raised is answered 500
\* and does nothing after the failure: an analytics call writes no cache
\* entry, a mutation commits nothing and calls delete_cache not once.  No
\* request runs a store or cache step more than once.
C19_StoreFailureIsFinal ==
    [][LET r == done'
           head(i) == r.log[i][1]
           count(h) == Cardinality({i \in DOMAIN r.log : head(i) = h})
           raised == count("query_raised") + count("commit_raised")
       IN  /\ (raised > 0 \/ r.status = 500) =>
                /\ r.status = 500
                /\ raised = 1
                /\ head(Len(r.log)) \in {"query_raised", "commit_raised"}
                /\ count("set_cache") = 0
                /\ count("delete_cache") = 0
                /\ redis' = redis
                /\ store' = store
                /\ requests' = [read |-> Idle, write |-> Idle]
                /\ r.kind \in MutationKinds => r.log = <<<<"commit_raised">>>>
           /\ count("get_cache") <= 1
           /\ count("set_cache") <= 1
           /\ count("commit") + count("commit_raised") <= 1
           /\ count("query") + count("query_raised")
                    <= IF r.kind = "get_financial_summary" THEN 2 ELSE 1
           /\ \A i, j \in DOMAIN r.log :
                    (head(i) = "delete_cache" /\ head(j) = "delete_cache" /\ i # j)
                        => r.log[i][2] # r.log[j][2]
      ]_vars

\* The second query of a summary raised, after its first had run.
C19_Witness ==
    /\ done.kind = "get_financial_summary"
    /\ done.status = 500
    /\ Len(done.log) = 3
    /\ done.log[2] = <<"query">>
    /\ done.log[3] = <<"query_raised">>
    /\ requests.read = Idle

\* C20: the key an analytics call uses is determined by its operation, the
\* caller's id and its resolved dates or months, and two calls that differ in
\* any of these use different keys; so a cache hit returns a value that was
\* computed for the same operation, user and window.
C20_KeyPerCall ==
    LET key_of(c) ==
            CASE c.kind = "get_financial_summary" ->
                    WindowKey(c.user_id, "summary", c.start_date, c.end_date)
              [] c.kind = "get_spending_by_category" ->
                    WindowKey(c.user_id, "spending_by_category", c.start_date,
                              c.end_date)
              [] c.kind = "get_income_by_category" ->
                    WindowKey(c.user_id, "income_by_category", c.start_date,
                              c.end_date)
              [] c.kind = "get_monthly_trend" -> TrendKey(c.user_id, c.months)
        calls ==
            [kind : ReadKinds \ {"get_monthly_trend"}, user_id : {1, 11},
             start_date : {<<2024, 12, 1>>, <<2025, 2, 1>>},
             end_date : {<<2024, 12, 31>>, <<2025, 2, 28>>}, months : {0}]
                \cup [kind : {"get_monthly_trend"}, user_id : {1, 11},
                      start_date : {<<>>}, end_date : {<<>>}, months : {1, 6, 16}]
    IN  /\ \A k \in DOMAIN redis :
                /\ redis[k].note.call \in calls
                /\ \A c \in calls : key_of(c) = k <=> c = redis[k].note.call
        /\ (done.kind \in ReadKinds /\ done.status = 200) =>
                done.log[1] = <<"get_cache", key_of(done.call)>>
        /\ (done.kind \in ReadKinds /\ done.path = "hit") =>
                /\ done.log[1][2] \in DOMAIN redis
                /\ redis[done.log[1][2]].note.call = done.call
                /\ done.body = json_loads(redis[done.log[1][2]].value)

\* A summary asked without dates in December has been answered from the one
\* entry of the cache, right after a summary asked for 1 to 31 December.
C20_Witness ==
    /\ done.kind = "get_financial_summary"
    /\ done.path = "hit"
    /\ done.raw = <<<<>>, <<>>>>
    /\ done.after.kind = "get_financial_summary"
    /\ done.after.user_id = done.user_id
    /\ done.after.raw = <<<<December[1]>>, <<December[2]>>>>
    /\ Cardinality(DOMAIN redis) = 1

\* C21: under every interleaving of reads, mutations and the passing of
\* time, an entry of the cache has between 1 and 300 seconds left, 600 for
\* the trend, so no value, stale or not, is served later than its expiry
\* after it was written.  An entry appears, changes its value or gains time
\* only in the set_cache that ends a miss, which gives it the full expiry and
\* the value that request computed from the store (the store's current
\* value unless a commit overtook the request).  A hit is served from an
\* entry that is there and leaves every entry, its time to live included, as
\* it was; with no entry under its key, expired or invalidated, a read goes
\* on to its queries.
C21_StaleAtMostExpiry ==
    [][LET expiry(k) ==
               IF redis'[k].note.call.kind = "get_monthly_trend" THEN 600 ELSE 300
           written == requests.read.pc = "set_cache" /\ requests'.read = Idle
       IN  /\ \A k \in DOMAIN redis' :
                /\ redis'[k].ttl >= 1
                /\ redis'[k].ttl <= expiry(k)
                /\ IF written /\ k = requests.read.cache_key
                   THEN /\ redis'[k].ttl = expiry(k)
                        /\ json_loads(redis'[k].value) = done'.body
                        /\ done'.path = "miss"
                        /\ ~requests.read.overtaken =>
                                done'.body = Fresh(requests.read.call, transactions,
                                                   categories)
                   ELSE /\ k \in DOMAIN redis
                        /\ redis'[k].value = redis[k].value
                        /\ redis'[k].ttl <= redis[k].ttl
           /\ (requests.read = Idle /\ done'.path = "hit" /\ done' # done) =>
                /\ done'.log[1][2] \in DOMAIN redis
                /\ done'.body = json_loads(redis[done'.log[1][2]].value)
                /\ redis' = redis
           /\ (requests.read = Idle /\ requests'.read # Idle) =>
                /\ requests'.read.pc = "query"
                /\ requests'.read.cache_key \notin DOMAIN redis
      ]_vars

\* A trend that the store no longer gives was served from an entry written
\* some time before, with less than its 600 seconds left.
C21_Witness ==
    /\ done.kind = "get_monthly_trend"
    /\ done.path = "hit"
    /\ done.body # done.nocache
    /\ done.log[1][2] \in DOMAIN redis
    /\ redis[done.log[1][2]].ttl < 600

\* C22: every entry of a trend computed from the store is the entry of a
\* (year, month) of the caller's rows, whatever their dates: its income
\* (expense) is the sum, to 2 decimals, of the caller's income (expense)
\* amounts of that month, 0 when the month has no row of that type, and its
\* balance is the income minus the expense as returned.
C22_TrendEntryPerMonth ==
    (done.kind = "get_monthly_trend" /\ done.status = 200 /\ done.path = "miss") =>
        LET mine == {t \in transactions : t.user_id = done.user_id}
            D == {<<t.date[1], t.date[2]>> : t \in mine}
            rows(p, type) ==
                {t \in mine : t.date[1] = p[1] /\ t.date[2] = p[2] /\ t.type = type}
            data == done.body.data
        IN  \A i \in DOMAIN data :
                /\ \E p \in D :
                        /\ data[i].month = MonthKey(p[1], p[2])
                        /\ data[i].income = Round2(SumAmount(rows(p, INCOME)))
                        /\ data[i].expense = Round2(SumAmount(rows(p, EXPENSE)))
                        /\ rows(p, INCOME) = {} => data[i].income = 0
                        /\ rows(p, EXPENSE) = {} => data[i].expense = 0
                /\ data[i].balance = data[i].income - data[i].expense

\* A trend from the store has an entry with an income and no expense, while
\* the store holds a row of another user.
C22_Witness ==
    /\ done.kind = "get_monthly_trend"
    /\ done.status = 200
    /\ done.path = "miss"
    /\ \E i \in DOMAIN done.body.data :
            /\ done.body.data[i].income > 0
            /\ done.body.data[i].expense = 0
            /\ done.body.data[i].balance = done.body.data[i].income
    /\ \E t \in transactions : t.user_id # done.user_id

\* C23: no step of a mutation of user A touches a cache entry of another
\* user B: the entry is still there, unchanged, after the step, and it is not
\* among the keys a delete_cache of the mutation has listed for deletion,
\* also when A's id is a decimal prefix of B's (1 and 11).  The two patterns
\* of A match no key of B.
C23_OtherUsersEntriesKept ==
    [][(requests.write # Idle \/ requests'.write # Idle) =>
            LET A == IF requests.write # Idle THEN requests.write.user_id
                     ELSE requests'.write.user_id
                others == {k \in DOMAIN redis : redis[k].note.call.user_id # A}
            IN  /\ \A k \in others :
                        /\ k \in DOMAIN redis'
                        /\ redis'[k] = redis[k]
                        /\ requests'.write # Idle => k \notin requests'.write.found
                /\ \A resource \in {"transactions", "categories", "budgets",
                                    "analytics"} :
                        KeysMatching(redis, InvalidationPattern(resource, A))
                            \cap others = {}
      ]_vars

\* A mutation of user 1 has returned after deleting analytics entries of
\* user 1, and an analytics entry of user 11 is in the cache.
C23_Witness ==
    /\ done.kind \in MutationKinds
    /\ done.status \in {200, 201, 204}
    /\ done.user_id = 1
    /\ done.cached_before # {}
    /\ done.cached_before \cap DOMAIN redis = {}
    /\ \E k \in DOMAIN redis : redis[k].note.call.user_id = 11

C25_RowsReferenceOwnCategory ==
    \A r \in transactions \cup budgets :
        \E c \in categories : c.id = r.category_id /\ c.user_id = r.user_id

\* A delete_category has been committed while the store holds a transaction
\* and a budget.
C25_Witness ==
    /\ done.kind = "delete_category"
    /\ done.status = 204
    /\ transactions # {}
    /\ budgets # {}

\* C26: with amounts of the caller that are whole hundredths, the totals of a
\* breakdown computed from the store add up to the total of its type that
\* the summary computes from the store for the same window, and the summary's
\* two totals are the sums of the totals of the two breakdowns; every row
\* the summary counts has its category in exactly one row of the breakdown
\* of its type.
C26_BreakdownAddsUpToSummary ==
    (/\ done.kind \in {"get_financial_summary", "get_spending_by_category",
                       "get_income_by_category"}
     /\ done.status = 200
     /\ done.path = "miss"
     /\ \A t \in transactions : t.user_id = done.user_id => t.amount % 10 = 0) =>
        LET A == done.user_id
            from == done.call.start_date
            to == done.call.end_date
            summary ==
                IF done.kind = "get_financial_summary" THEN done.body
                ELSE ComputeSummary(transactions, A, from, to)
            breakdown(kind, type) ==
                IF done.kind = kind THEN done.body.data
                ELSE ComputeByCategory(transactions, categories, A, type, from,
                                       to).data
            spending == breakdown("get_spending_by_category", EXPENSE)
            income == breakdown("get_income_by_category", INCOME)
            added(data) ==
                SumAmount({[row |-> i, amount |-> data[i].total] : i \in DOMAIN data})
            once(data, type) ==
                \A t \in MatchingRows(transactions, A, type, from, to) :
                    Cardinality({i \in DOMAIN data :
                                    data[i].category_id = t.category_id}) = 1
        IN  /\ added(spending) = summary.total_expenses
            /\ added(income) = summary.total_income
            /\ once(spending, EXPENSE)
            /\ once(income, INCOME)

\* An income breakdown of December from the store has two rows, one of them
\* for a category of type expense, and their totals are 100.00 and 25.00.
C26_Witness ==
    /\ done.kind = "get_income_by_category"
    /\ done.status = 200
    /\ done.path = "miss"
    /\ Len(done.body.data) = 2
    /\ done.body.data[1].total = 10000
    /\ done.body.data[2].total = 2500
    /\ \E c \in categories :
            c.id = done.body.data[2].category_id /\ c.type = EXPENSE

\* C27: every key in the cache starts with "analytics:<user_id>:", the id of
\* the caller of the request that wrote it, and none with "transactions:",
\* "categories:" or "budgets:".  The set_cache that ends a miss writes, under
\* the key of its caller, the value computed from that caller's rows and
\* categories.  When a mutation of user A commits, every entry whose value
\* the commit changes matches "analytics:<A>:*", and the pattern of the
\* mutation's own resource matches no key.
C27_AnalyticsPrefixCoversStale ==
    [][LET prefix(u) == <<"analytics", ":">> \o Str(u) \o <<":">>
           written == requests.read.pc = "set_cache" /\ requests'.read = Idle
           committed == requests.write = Idle /\ requests'.write # Idle
       IN  /\ \A k \in DOMAIN redis' :
                /\ IsPrefix(prefix(redis'[k].note.call.user_id), k)
                /\ k[1] \notin {"transactions", "categories", "budgets"}
           /\ written =>
                LET req == requests.read
                    mine == {t \in transactions : t.user_id = req.user_id}
                    own == {c \in categories : c.user_id = req.user_id}
                IN  /\ req.cache_key \in DOMAIN redis'
                    /\ IsPrefix(prefix(req.user_id), req.cache_key)
                    /\ redis'[req.cache_key].note.call.user_id = req.user_id
                    /\ json_loads(redis'[req.cache_key].value)
                            = Fresh(req.call, mine, own)
           /\ committed =>
                LET A == requests'.write.user_id
                    stale == {k \in DOMAIN redis :
                                Fresh(redis[k].note.call, transactions', categories')
                                    # Fresh(redis[k].note.call, transactions,
                                            categories)}
                IN  /\ stale \subseteq
                            KeysMatching(redis, InvalidationPattern("analytics", A))
                    /\ KeysMatching(redis,
                                    InvalidationPattern(requests'.write.resource, A))
                            = {}
      ]_vars

\* A mutation has committed and reached its analytics invalidation with an
\* entry of its user in the cache that the store no longer gives, which the
\* pattern matches, and an entry of the other user.
C27_Witness ==
    /\ requests.write # Idle
    /\ requests.write.pc = "invalidate_analytics"
    /\ \E k \in KeysMatching(redis, InvalidationPattern("analytics",
                                                       requests.write.user_id)) :
            json_loads(redis[k].value)
                # Fresh(redis[k].note.call, transactions, categories)
    /\ \E j \in DOMAIN redis : redis[j].note.call.user_id # requests.write.user_id

====
